---- MODULE Spec2Model ----
(***************************************************************************)
(* Corpus normalisation-and-indexing engine of oro-spel-v3.                *)
(*                                                                         *)
(* Strings are sequences of one-character strings.  The store is the       *)
(* three collections the server actions use through the ORM:               *)
(*   globalSentence  (integer id -> text),                                 *)
(*   personalCorpus  (opaque string id -> sentence row),                   *)
(*   corpusIndex     (rows keyed by (baseWord, userId); userId null is the *)
(*                    global scope), kept in insertion order.              *)
(* The earlier copy of the actions reads the global corpus from the JSON   *)
(* files of scripts/pre-process-corpus.mjs (dataFiles) and keeps the       *)
(* personal index in its own collection (personalCorpusIndex).  pending    *)
(* holds the addToPersonalCorpus calls that are between two awaits.        *)
(***************************************************************************)
EXTENDS Integers, Sequences, FiniteSets, TLC

VARIABLES globalSentence, personalCorpus, corpusIndex, issued, last,
          personalCorpusIndex, dataFiles, pending, project, projectSentence

vars == <<globalSentence, personalCorpus, corpusIndex, issued, last,
          personalCorpusIndex, dataFiles, pending, project, projectSentence>>

----------------------------------------------------------------------------
(* Bounds of the model *)

\* how many personalCorpus rows are created in one run
MaxIds == 2

\* how many sentences one addToPersonalCorpus call may carry
MaxBatch == 1

\* how long the strings given to getBaseWord on its own may be
MaxWordLen == 3

----------------------------------------------------------------------------
(* Characters and strings *)

\* the character class of the punctuation-stripping regular expression (the
\* grave accent, which is in the class too, cannot be written in a string here
\* and is not a character of any input of the model)
Punct == {".", ",", "/", "#", "!", "$", "%", "^", "&", "*", ";", ":", "{",
          "}", "=", "-", "_", "~", "(", ")", "?"}

\* the characters the . of a regular expression without the s flag skips
LineTerminators == {"\n"}

Whitespace == {" "}

UpperCase == {"A", "B"}

DigitChars == <<"0", "1", "2", "3", "4", "5", "6", "7", "8", "9">>

IsDigit(c) == \E i \in DOMAIN DigitChars : DigitChars[i] = c

DigitVal(c) == (CHOOSE i \in DOMAIN DigitChars : DigitChars[i] = c) - 1

\* [A-Za-z0-9_], the characters \b counts as word characters
IsWordChar(c) == c \in {"a", "b", "A", "B", "_"} \/ IsDigit(c)

toLowerChar(c) == IF c = "A" THEN "a" ELSE IF c = "B" THEN "b" ELSE c

toLowerCase(w) == [i \in DOMAIN w |-> toLowerChar(w[i])]

\* word.replace(/[.,/#!$%^&*;:{}=\-_`~()?]/g, ""); the grave accent is a
\* character no input of the model holds
stripPunct(w) == SelectSeq(w, LAMBDA c : c \notin Punct)

\* a slip: /(.)\1/g, which halves a run instead of collapsing it
RECURSIVE collapsePairs(_)
collapsePairs(w) ==
  IF Len(w) <= 1 THEN w
  ELSE IF w[1] = w[2] THEN <<w[1]>> \o collapsePairs(Tail(Tail(w)))
       ELSE <<w[1]>> \o collapsePairs(Tail(w))

\* cleaned.replace(/(.)\1+/g, "$1")
RECURSIVE collapseRuns(_)
collapseRuns(w) ==
  IF Len(w) <= 1 THEN w
  ELSE IF w[1] = w[2] /\ w[1] \notin LineTerminators THEN collapseRuns(Tail(w))
       ELSE <<w[1]>> \o collapseRuns(Tail(w))

getBaseWord(word) ==
  IF word = <<>> THEN <<>>
  ELSE collapseRuns(toLowerCase(stripPunct(word)))

\* sentence.split(/\s+/).filter(Boolean)
RECURSIVE splitFrom(_, _)
splitFrom(s, cur) ==
  IF s = <<>> THEN (IF cur = <<>> THEN <<>> ELSE <<cur>>)
  ELSE IF s[1] \in Whitespace
       THEN (IF cur = <<>> THEN <<>> ELSE <<cur>>) \o splitFrom(Tail(s), <<>>)
       ELSE splitFrom(Tail(s), Append(cur, s[1]))

splitWords(s) == splitFrom(s, <<>>)

\* sentence.trim()
trimIsEmpty(s) == \A i \in DOMAIN s : s[i] \in Whitespace

Range(q) == {q[i] : i \in DOMAIN q}

\* q.slice(0, n)
Prefix(q, n) == SubSeq(q, 1, IF Len(q) < n THEN Len(q) ELSE n)

\* [...new Set(q)]: the distinct elements in order of first occurrence
RECURSIVE uniqueSeq(_)
uniqueSeq(q) ==
  IF q = <<>> THEN <<>>
  ELSE LET r == uniqueSeq(SubSeq(q, 1, Len(q) - 1))
       IN IF q[Len(q)] \in Range(r) THEN r ELSE Append(r, q[Len(q)])

RECURSIVE natToStr(_)
natToStr(n) ==
  IF n < 10 THEN <<DigitChars[n + 1]>>
  ELSE Append(natToStr(n \div 10), DigitChars[(n % 10) + 1])

NaN == -1

RECURSIVE digitsValue(_)
digitsValue(q) ==
  IF q = <<>> THEN 0
  ELSE 10 * digitsValue(SubSeq(q, 1, Len(q) - 1)) + DigitVal(q[Len(q)])

RECURSIVE leadingDigits(_)
leadingDigits(q) ==
  IF q = <<>> \/ ~IsDigit(q[1]) THEN <<>>
  ELSE <<q[1]>> \o leadingDigits(Tail(q))

\* parseInt(id, 10): the value of the leading decimal digits, NaN without any
parseInt(q) == IF leadingDigits(q) = <<>> THEN NaN ELSE digitsValue(leadingDigits(q))

\* Number(id): the value of an all-digit string, NaN otherwise
Number(q) ==
  IF q # <<>> /\ leadingDigits(q) = q THEN digitsValue(q)
  ELSE IF q = <<>> THEN 0 ELSE NaN

----------------------------------------------------------------------------
(* Inputs *)

Users == {"u1", "u2"}

\* getCurrentUser() returns null without a session
NoUser == "none"

Callers == Users \cup {NoUser}

\* the userId of a global index entry
GlobalScope == "null"

\* sentences a user may add to the personal corpus
InputSentences ==
  { <<"a", " ", "b">>,
    <<"a", "a", " ", "a">>,
    <<"a", "-", "b">>,
    <<" ">> }

\* the sentences added where only the writes are examined
WriteSentences == InputSentences \ { <<"a", "-", "b">> }

\* sentences a user may type into the editor
TypedSentences == InputSentences \cup { <<"A">>, <<"-">> }

\* word lists a user may ask suggestions for
WordLists ==
  { << <<"a">>, <<"b">>, <<"a", "b">> >>,
    << <<"a">>, <<"b">> >>,
    << <<"a", "a">> >> }

Modes == {"single", "overlap"}

\* the id the database gives the k-th personalCorpus row it creates: an opaque
\* string, never handed out twice; some begin with decimal digits, some do not
IdOf(k) == IF k % 2 = 1 THEN Append(natToStr(k), "a") ELSE <<"b">> \o natToStr(k)

IdPool == {IdOf(k) : k \in 1..(MaxIds + 1)}

\* the corpus files the seeding script may be run on
Corpora ==
  { << <<"b", " ", "b">>, <<"a", "b", " ", "a">>, <<"a", "b", " ", "a", " ", "b">> >> }

BaseWordInputs ==
  {getBaseWord(w) : w \in UNION {Range(splitWords(s)) : s \in InputSentences}}
    \cup {<<>>}

----------------------------------------------------------------------------
(* The store *)

Row(bw, uid, vs, ids) ==
  [baseWord |-> bw, userId |-> uid, variants |-> vs, sentenceIds |-> ids]

\* positions of the corpusIndex rows with this (baseWord, userId)
RowsFor(idx, bw, uid) ==
  {i \in DOMAIN idx : idx[i].baseWord = bw /\ idx[i].userId = uid}

\* findFirst: the first such row's position, 0 when there is none
FindFirst(idx, bw, uid) ==
  IF RowsFor(idx, bw, uid) = {} THEN 0
  ELSE CHOOSE i \in RowsFor(idx, bw, uid) : \A j \in RowsFor(idx, bw, uid) : i <= j

RemoveAt(q, i) == SubSeq(q, 1, i - 1) \o SubSeq(q, i + 1, Len(q))

\* public/data before the pre-processing script has run
NoFiles == [chunks |-> << >>, index |-> << >>, metadata |-> {}]

\* the addToPersonalCorpus calls that can be in progress at the same time
Procs == {1, 2}

\* no call in progress
Idle == [at |-> "idle"]

Result(op, caller, arg, res) ==
  [op |-> op, caller |-> caller, arg |-> arg, result |-> res]

Init ==
  /\ globalSentence = << >>
  /\ personalCorpus = << >>
  /\ corpusIndex = << >>
  /\ issued = 0
  /\ last = Result("init", NoUser, <<>>, "success")
  /\ personalCorpusIndex = << >>
  /\ dataFiles = NoFiles
  /\ pending = [p \in Procs |-> Idle]
  /\ project = << >>
  /\ projectSentence = << >>

----------------------------------------------------------------------------
(* addToPersonalCorpus *)

\* words.find((w) => getBaseWord(w) === baseWord) || baseWord
firstVariant(words, bw) ==
  LET m == SelectSeq(words, LAMBDA w : getBaseWord(w) = bw)
  IN IF m = <<>> THEN bw ELSE m[1]

\* the create branch of the upsert
upsertCreate(idx, uid, bw, words, id) ==
  Append(idx, Row(bw, uid,
                  uniqueSeq(SelectSeq(words, LAMBDA w : getBaseWord(w) = bw)),
                  <<id>>))

\* the update branch of the upsert, on the row at position i
upsertUpdate(idx, i, bw, words, id) ==
  [idx EXCEPT ![i].sentenceIds = Append(@, id),
              ![i].variants = Append(@, firstVariant(words, bw))]

\* prisma.corpusIndex.upsert on the compound key (baseWord, userId)
upsertIndex(idx, uid, bw, words, id) ==
  LET i == FindFirst(idx, bw, uid)
  IN IF i = 0 THEN upsertCreate(idx, uid, bw, words, id)
     ELSE upsertUpdate(idx, i, bw, words, id)

\* for (const baseWord of new Set(baseWords)) { if (!baseWord) continue; upsert }
RECURSIVE upsertAll(_, _, _, _, _)
upsertAll(idx, uid, bws, words, id) ==
  IF bws = <<>> THEN idx
  ELSE upsertAll(IF bws[1] = <<>> THEN idx
                 ELSE upsertIndex(idx, uid, bws[1], words, id),
                 uid, Tail(bws), words, id)

\* the base words the index loop of addToPersonalCorpus visits
indexedBaseWords(baseWords) == uniqueSeq(baseWords)

\* n counts the personalCorpus rows created so far
Store(pc, idx, n) == [pc |-> pc, idx |-> idx, n |-> n]

\* one iteration of the loop over the sentences: create the row, then index it
addSentence(st, uid, sentence) ==
  LET id == IdOf(st.n + 1)
      words == splitWords(sentence)
      baseWords == [i \in DOMAIN words |-> getBaseWord(words[i])]
      row == [sentence |-> sentence, words |-> words,
              baseWords |-> baseWords, userId |-> uid]
  IN Store(st.pc @@ (id :> row),
           upsertAll(st.idx, uid, indexedBaseWords(baseWords), words, id),
           st.n + 1)

\* the loop over the sentences; blank sentences are skipped
RECURSIVE addAll(_, _, _)
addAll(st, uid, sentences) ==
  IF sentences = <<>> THEN st
  ELSE addAll(IF trimIsEmpty(sentences[1]) THEN st
              ELSE addSentence(st, uid, sentences[1]),
              uid, Tail(sentences))

Batches(S) == UNION {[1..n -> S] : n \in 1..MaxBatch}

NonBlank(sentences) == {k \in DOMAIN sentences : ~trimIsEmpty(sentences[k])}

AddToPersonalCorpus(caller, sentences) ==
  IF caller = NoUser
  THEN /\ last' = Result("add", caller, sentences, "Unauthorized")
       /\ UNCHANGED <<project, projectSentence, globalSentence, personalCorpus, corpusIndex, issued,
                   personalCorpusIndex, dataFiles, pending>>
  ELSE /\ issued + Cardinality(NonBlank(sentences)) <= MaxIds
       /\ LET st == addAll(Store(personalCorpus, corpusIndex, issued),
                           caller, sentences)
          IN /\ personalCorpus' = st.pc
             /\ corpusIndex' = st.idx
             /\ issued' = st.n
       /\ last' = Result("add", caller, sentences, "success")
       /\ UNCHANGED <<project, projectSentence, globalSentence, personalCorpusIndex, dataFiles, pending>>

----------------------------------------------------------------------------
(* deletePersonalCorpusSentence *)

\* updateMany({baseWord, userId}, sentenceIds: {set: findFirst(...).sentenceIds
\* .filter((id) => id !== sentenceId)})
removeRef(idx, uid, bw, id) ==
  LET i == FindFirst(idx, bw, uid)
      kept == IF i = 0 THEN <<>>
              ELSE SelectSeq(idx[i].sentenceIds, LAMBDA x : x # id)
  IN [k \in DOMAIN idx |->
        IF k \in RowsFor(idx, bw, uid)
        THEN [idx[k] EXCEPT !.sentenceIds = kept] ELSE idx[k]]

\* for (const baseWord of baseWords) { updateMany ... }
RECURSIVE removeRefs(_, _, _, _)
removeRefs(idx, uid, bws, id) ==
  IF bws = <<>> THEN idx
  ELSE removeRefs(removeRef(idx, uid, bws[1], id), uid, Tail(bws), id)

\* a slip: only the first base word of the sentence is cleaned
cleanedFirstBaseWordOnly(row) == Prefix(row.baseWords, 1)

\* the base words whose entries deletePersonalCorpusSentence cleans
cleanedBaseWords(row) == row.baseWords

\* a slip: the sentence is looked up by id alone
ownsSentenceByIdOnly(pc, id, uid) == id \in DOMAIN pc

\* personalCorpus.findFirst({id: sentenceId, userId: user.id}) finds a row
ownsSentence(pc, id, uid) == id \in DOMAIN pc /\ pc[id].userId = uid

DropKey(f, k) == [x \in DOMAIN f \ {k} |-> f[x]]

DeletePersonalCorpusSentence(caller, sentenceId) ==
  IF caller = NoUser
  THEN /\ last' = Result("deleteSentence", caller, sentenceId, "Unauthorized")
       /\ UNCHANGED <<project, projectSentence, globalSentence, personalCorpus, corpusIndex, issued,
                   personalCorpusIndex, dataFiles, pending>>
  ELSE IF sentenceId = <<>>
  THEN /\ last' = Result("deleteSentence", caller, sentenceId,
                         "Sentence ID is required")
       /\ UNCHANGED <<project, projectSentence, globalSentence, personalCorpus, corpusIndex, issued,
                   personalCorpusIndex, dataFiles, pending>>
  ELSE IF ~ownsSentence(personalCorpus, sentenceId, caller)
  THEN /\ last' = Result("deleteSentence", caller, sentenceId,
                         "Sentence not found")
       /\ UNCHANGED <<project, projectSentence, globalSentence, personalCorpus, corpusIndex, issued,
                   personalCorpusIndex, dataFiles, pending>>
  ELSE /\ corpusIndex' = removeRefs(corpusIndex, caller,
                                    cleanedBaseWords(personalCorpus[sentenceId]),
                                    sentenceId)
       /\ personalCorpus' = DropKey(personalCorpus, sentenceId)
       /\ last' = Result("deleteSentence", caller, sentenceId, "success")
       /\ UNCHANGED <<project, projectSentence, globalSentence, issued, personalCorpusIndex, dataFiles, pending>>

----------------------------------------------------------------------------
(* deletePersonalCorpusEntry *)

\* a slip: only the first sentence of the entry is deleted
deleteFirstSentenceOnly(pc, ids, uid) ==
  [x \in {y \in DOMAIN pc : ~(ids # <<>> /\ y = ids[1] /\ pc[y].userId = uid)} |-> pc[x]]

\* personalCorpus.deleteMany({id: {in: sentenceIds}, userId})
deleteManySentences(pc, ids, uid) ==
  [x \in {y \in DOMAIN pc : ~(y \in Range(ids) /\ pc[y].userId = uid)} |-> pc[x]]

\* what deletePersonalCorpusEntry does to the index once the entry is found
\* at position i: corpusIndex.delete({id: indexEntry.id})
deleteEntryRows(idx, i) == RemoveAt(idx, i)

DeletePersonalCorpusEntry(caller, baseWord) ==
  IF caller = NoUser
  THEN /\ last' = Result("deleteEntry", caller, baseWord, "Unauthorized")
       /\ UNCHANGED <<project, projectSentence, globalSentence, personalCorpus, corpusIndex, issued,
                   personalCorpusIndex, dataFiles, pending>>
  ELSE IF baseWord = <<>>
  THEN /\ last' = Result("deleteEntry", caller, baseWord, "Base word is required")
       /\ UNCHANGED <<project, projectSentence, globalSentence, personalCorpus, corpusIndex, issued,
                   personalCorpusIndex, dataFiles, pending>>
  ELSE IF FindFirst(corpusIndex, baseWord, caller) = 0
  THEN /\ last' = Result("deleteEntry", caller, baseWord, "Entry not found")
       /\ UNCHANGED <<project, projectSentence, globalSentence, personalCorpus, corpusIndex, issued,
                   personalCorpusIndex, dataFiles, pending>>
  ELSE LET i == FindFirst(corpusIndex, baseWord, caller)
       IN /\ personalCorpus' =
               deleteManySentences(personalCorpus, corpusIndex[i].sentenceIds, caller)
          /\ corpusIndex' = deleteEntryRows(corpusIndex, i)
          /\ last' = Result("deleteEntry", caller, baseWord, "success")
          /\ UNCHANGED <<project, projectSentence, globalSentence, issued, personalCorpusIndex, dataFiles, pending>>

----------------------------------------------------------------------------
(* prisma/seed.mjs: the batch build of the global corpus *)

\* fileContent.split(/\r?\n/).filter(line => line.trim() !== ""), then
\* [...new Set(allSentences)]
uniqueSentences(lines) == uniqueSeq(SelectSeq(lines, LAMBDA l : ~trimIsEmpty(l)))

addUnique(q, x) == IF x \in Range(q) THEN q ELSE Append(q, x)

\* one word of one sentence: corpusIndex.get(baseWord).variants.add(word),
\* .sentenceIds.add(sentenceId); the Map keeps its keys in insertion order
seedWord(rows, word, sid) ==
  LET bw == getBaseWord(word)
      i == FindFirst(rows, bw, GlobalScope)
  IN IF bw = <<>> THEN rows
     ELSE IF i = 0 THEN Append(rows, Row(bw, GlobalScope, <<word>>, <<sid>>))
     ELSE [rows EXCEPT ![i].variants = addUnique(@, word),
                       ![i].sentenceIds = addUnique(@, sid)]

RECURSIVE seedWords(_, _, _)
seedWords(rows, words, sid) ==
  IF words = <<>> THEN rows
  ELSE seedWords(seedWord(rows, words[1], sid), Tail(words), sid)

\* uniqueSentences.forEach((sentence, index) => ...), sentenceId = index + 1
RECURSIVE seedIndex(_, _, _)
seedIndex(rows, sentences, k) ==
  IF k > Len(sentences) THEN rows
  ELSE seedIndex(seedWords(rows, splitWords(sentences[k]), natToStr(k)),
                 sentences, k + 1)

SeedGlobal(lines) ==
  /\ globalSentence' = uniqueSentences(lines)
  /\ corpusIndex' =
       SelectSeq(corpusIndex, LAMBDA r : r.userId # GlobalScope)
         \o seedIndex(<<>>, uniqueSentences(lines), 1)
  /\ last' = Result("seed", NoUser, lines, "success")
  /\ UNCHANGED <<project, projectSentence, personalCorpus, issued, personalCorpusIndex, dataFiles, pending>>

----------------------------------------------------------------------------
(* analyzeSentence (unified index) *)

\* does the position k of text s lie on a \b word boundary
wordBoundary(s, k) ==
  LET before == k > 1 /\ IsWordChar(s[k - 1])
      after == k <= Len(s) /\ IsWordChar(s[k])
  IN before # after

\* new RegExp("\\b" + word + "\\b", "i").test(s), for a word without regular
\* expression metacharacters (none is in the alphabet of the model)
regexWordTest(word, s) ==
  \E p \in 1..(Len(s) - Len(word) + 1) :
    /\ toLowerCase(SubSeq(s, p, p + Len(word) - 1)) = toLowerCase(word)
    /\ wordBoundary(s, p)
    /\ wordBoundary(s, p + Len(word))

\* a slip: the query forgets the scope condition
findEntriesAnyScope(idx, bws, uid) ==
  SelectSeq(idx, LAMBDA r : r.baseWord \in bws)

\* corpusIndex.findMany({baseWord in bws, OR: [{userId: null}, {userId}]})
findEntries(idx, bws, uid) ==
  SelectSeq(idx, LAMBDA r : r.baseWord \in bws /\ r.userId \in {GlobalScope, uid})

RECURSIVE flatten(_)
flatten(qq) == IF qq = <<>> THEN <<>> ELSE qq[1] \o flatten(Tail(qq))

\* the sentence ids of the rows of one kind, in row order
idsOf(rows, global) ==
  flatten([k \in DOMAIN SelectSeq(rows, LAMBDA r : (r.userId = GlobalScope) = global)
             |-> SelectSeq(rows, LAMBDA r : (r.userId = GlobalScope) = global)[k].sentenceIds])

\* globalSentence.findMany({id: {in: ids}}): the texts of the rows found
globalTexts(gs, nums) ==
  LET hit == {k \in DOMAIN gs : k \in nums}
  IN {gs[k] : k \in hit}

\* personalCorpus.findMany({id: {in: ids}}): the sentences of the rows found
personalTexts(pc, ids) ==
  {pc[x].sentence : x \in DOMAIN pc \cap ids}

Analysis(word, bw, status, pos) ==
  [word |-> word, baseWord |-> bw, status |-> status, suggestions |-> <<>>,
   position |-> pos]

\* the status of one token whose stripped form is word
tokenStatus(gs, pc, idx, uid, word) ==
  LET baseWord == getBaseWord(word)
      indexEntries == findEntries(idx, {baseWord}, uid)
      globalIds == {Number(x) : x \in Range(idsOf(indexEntries, TRUE))}
      personalIds == Range(idsOf(indexEntries, FALSE))
      allSentenceTexts == globalTexts(gs, globalIds) \cup personalTexts(pc, personalIds)
      exactMatchFound == \E t \in allSentenceTexts : regexWordTest(word, t)
  IN IF indexEntries = <<>> THEN "unknown"
     ELSE IF exactMatchFound THEN "correct" ELSE "variant"

\* the loop over the tokens, i the 1-based position of the next token
RECURSIVE analyzeFrom(_, _, _, _, _, _)
analyzeFrom(gs, pc, idx, uid, words, i) ==
  IF i > Len(words) THEN <<>>
  ELSE LET originalWord == words[i]
           word == stripPunct(originalWord)
           rest == analyzeFrom(gs, pc, idx, uid, words, i + 1)
       IN IF word = <<>> THEN rest
          ELSE <<Analysis(originalWord, getBaseWord(word),
                          tokenStatus(gs, pc, idx, uid, word), i - 1)>> \o rest

\* a slip: the analysis starts before the user is looked at
analyzeSentenceUnchecked(gs, pc, idx, caller, sentence) ==
  IF trimIsEmpty(sentence) THEN [wordAnalyses |-> <<>>]
  ELSE [wordAnalyses |-> analyzeFrom(gs, pc, idx, caller, splitWords(sentence), 1)]

analyzeSentence(gs, pc, idx, caller, sentence) ==
  IF caller = NoUser THEN [error |-> "Unauthorized"]
  ELSE IF trimIsEmpty(sentence) THEN [wordAnalyses |-> <<>>]
  ELSE [wordAnalyses |-> analyzeFrom(gs, pc, idx, caller, splitWords(sentence), 1)]

AnalyzeSentence(caller, sentence) ==
  /\ last' = Result("analyze", caller, sentence,
                    analyzeSentence(globalSentence, personalCorpus, corpusIndex,
                                    caller, sentence))
  /\ UNCHANGED <<project, projectSentence, globalSentence, personalCorpus, corpusIndex, issued,
                   personalCorpusIndex, dataFiles, pending>>

----------------------------------------------------------------------------
(* getSuggestions (unified index) *)

\* take: 20 on the index query of the single mode
SingleTake == 20

\* .slice(0, 10) on the ids of each scope in the single mode
SingleSlice == 10

\* .slice(0, 15) on the ranked ids of the overlap mode
OverlapLimit == 15

\* the number of the personalCorpus row with this id, in creation order
creationNo(id) == CHOOSE k \in 1..(MaxIds + 1) : IdOf(k) = id

\* the elements of the finite set S of integers, ascending
RECURSIVE ascending(_)
ascending(S) ==
  IF S = {} THEN <<>>
  ELSE LET m == CHOOSE x \in S : \A y \in S : x <= y
       IN <<m>> \o ascending(S \ {m})

\* globalSentence.findMany({id: {in: nums}}): the rows found, in id order
globalRows(gs, nums) ==
  LET hit == ascending({k \in DOMAIN gs : k \in nums})
  IN [j \in DOMAIN hit |-> [id |-> hit[j], text |-> gs[hit[j]]]]

\* personalCorpus.findMany({id: {in: ids}}): the rows found, in creation order
personalRows(pc, ids) ==
  LET hit == ascending({creationNo(x) : x \in DOMAIN pc \cap ids})
  IN [j \in DOMAIN hit |-> [id |-> IdOf(hit[j]), text |-> pc[IdOf(hit[j])].sentence]]

textsOf(rows) == [j \in DOMAIN rows |-> rows[j].text]

suggestSingle(gs, pc, idx, uid, baseWord) ==
  LET indexEntries == Prefix(findEntries(idx, {baseWord}, uid), SingleTake)
      globalIds == Prefix(uniqueSeq([j \in DOMAIN idsOf(indexEntries, TRUE) |->
                                       Number(idsOf(indexEntries, TRUE)[j])]),
                          SingleSlice)
      personalIds == Prefix(uniqueSeq(idsOf(indexEntries, FALSE)), SingleSlice)
  IN uniqueSeq(textsOf(globalRows(gs, Range(globalIds)))
                 \o textsOf(personalRows(pc, Range(personalIds))))

occurrences(q, x) == Cardinality({j \in DOMAIN q : q[j] = x})

\* the overlapMap: every sentence id of the matching rows with the number of
\* times it is listed, in order of first insertion
overlapCounts(idx, bws, uid) ==
  LET rows == findEntries(idx, bws, uid)
      all == flatten([j \in DOMAIN rows |-> rows[j].sentenceIds])
      keys == uniqueSeq(all)
  IN [j \in DOMAIN keys |-> [id |-> keys[j], overlap |-> occurrences(all, keys[j])]]

\* .sort((a, b) => b[1] - a[1]): stable, descending by count
RECURSIVE sortFrom(_, _)
sortFrom(q, c) ==
  IF c < 1 THEN <<>>
  ELSE SelectSeq(q, LAMBDA e : e.overlap = c) \o sortFrom(q, c - 1)

sortByOverlap(q) == sortFrom(q, Len(q) + 1)

\* .filter(([, count]) => count > 1).sort(...).slice(0, 15)
rankOverlap(counts) ==
  Prefix(sortByOverlap(SelectSeq(counts, LAMBDA e : e.overlap > 1)), OverlapLimit)

\* is the ranked id fetched from the global table (parseInt is a number) or
\* from the personal one (parseInt is NaN)
fetchedAsGlobal(id) == parseInt(id) # NaN

\* the sentenceMap of the overlap mode: id string -> text, for the ids fetched
overlapSentenceMap(gs, pc, sorted) ==
  LET ids == Range([j \in DOMAIN sorted |-> sorted[j].id])
      globalIdsToFetch == {parseInt(x) : x \in {y \in ids : fetchedAsGlobal(y)}}
      personalIdsToFetch == {y \in ids : ~fetchedAsGlobal(y)}
      g == globalRows(gs, globalIdsToFetch)
      p == personalRows(pc, personalIdsToFetch)
  IN [x \in {natToStr(g[j].id) : j \in DOMAIN g} \cup {p[j].id : j \in DOMAIN p} |->
        IF \E j \in DOMAIN p : p[j].id = x
        THEN pc[x].sentence
        ELSE gs[Number(x)]]

suggestOverlap(gs, pc, idx, uid, baseWords) ==
  LET sorted == rankOverlap(overlapCounts(idx, Range(baseWords), uid))
      sentenceMap == overlapSentenceMap(gs, pc, sorted)
      found == SelectSeq(sorted, LAMBDA e : e.id \in DOMAIN sentenceMap)
  IN [j \in DOMAIN found |->
        [sentence |-> sentenceMap[found[j].id], overlap |-> found[j].overlap]]

getSuggestions(gs, pc, idx, caller, words, mode) ==
  LET baseWords == SelectSeq([j \in DOMAIN words |-> getBaseWord(words[j])],
                             LAMBDA b : b # <<>>)
  IN IF caller = NoUser THEN [error |-> "Unauthorized"]
     ELSE IF baseWords = <<>> THEN [type |-> mode, suggestions |-> <<>>]
     ELSE IF mode = "single"
     THEN [type |-> "single",
           suggestions |-> suggestSingle(gs, pc, idx, caller, baseWords[1])]
     ELSE IF mode = "overlap"
     THEN [type |-> "overlap",
           suggestions |-> suggestOverlap(gs, pc, idx, caller, baseWords)]
     ELSE [type |-> mode, suggestions |-> <<>>]

GetSuggestions(caller, words, mode) ==
  /\ last' = Result("suggest", caller, [words |-> words, mode |-> mode],
                    getSuggestions(globalSentence, personalCorpus, corpusIndex,
                                   caller, words, mode))
  /\ UNCHANGED <<project, projectSentence, globalSentence, personalCorpus, corpusIndex, issued,
                   personalCorpusIndex, dataFiles, pending>>

----------------------------------------------------------------------------

(* scripts/pre-process-corpus.mjs: the batch build of the JSON data files *)

\* how many sentences one sentences_<n>.json file holds: 10000 in the script,
\* scaled down so that a corpus of three sentences spans two files
SENTENCE_CHUNK_SIZE == 2

\* the corpus files the pre-processing script may be run on
CorpusFiles ==
  { << <<"a">>, <<"b">> >>,
    << <<"a", "a", " ", "a">> >>,
    << <<"b", " ", "b">>, <<"a", "b", " ", "a">> >> }

\* fileContent.split(/\r?\n/).filter(line => line.trim() !== "")
allSentences(lines) == SelectSeq(lines, LAMBDA l : ~trimIsEmpty(l))

\* Math.ceil(n / SENTENCE_CHUNK_SIZE)
numSentenceChunks(n) == (n + SENTENCE_CHUNK_SIZE - 1) \div SENTENCE_CHUNK_SIZE

\* a slip: a chunk that begins one sentence before its start
sentenceChunkEarly(sentences, i) ==
  SubSeq(sentences, IF i = 0 THEN 1 ELSE i * SENTENCE_CHUNK_SIZE,
         IF Len(sentences) < (i + 1) * SENTENCE_CHUNK_SIZE
         THEN Len(sentences) ELSE (i + 1) * SENTENCE_CHUNK_SIZE)

\* allSentences.slice(i * SENTENCE_CHUNK_SIZE, i * SENTENCE_CHUNK_SIZE + SENTENCE_CHUNK_SIZE)
sentenceChunk(sentences, i) ==
  SubSeq(sentences, i * SENTENCE_CHUNK_SIZE + 1,
         IF Len(sentences) < (i + 1) * SENTENCE_CHUNK_SIZE
         THEN Len(sentences) ELSE (i + 1) * SENTENCE_CHUNK_SIZE)

\* uniqueBaseWordsInSentence: the non-empty base words of one sentence
uniqueBaseWordsInSentence(sentence) ==
  {getBaseWord(w) : w \in Range(splitWords(sentence))} \ {<<>>}

\* sentenceIndex: base word -> the 0-based positions of the sentences that
\* contain it, each pushed once per sentence in the order of the forEach
sentenceIndex(sentences) ==
  [bw \in UNION {uniqueBaseWordsInSentence(sentences[k]) : k \in DOMAIN sentences}
     |-> ascending({k - 1 : k \in {j \in DOMAIN sentences :
                                     bw \in uniqueBaseWordsInSentence(sentences[j])}})]

\* the name part of index_<firstChar>.json for a base word
indexFileKey(baseWord) ==
  IF baseWord = <<>> \/ baseWord[1] \notin {"a", "b"} THEN "other" ELSE baseWord[1]

\* indexChunks: the sentenceIndex split by indexFileKey
indexChunks(sentences) ==
  LET idx == sentenceIndex(sentences)
  IN [key \in {indexFileKey(bw) : bw \in DOMAIN idx}
        |-> [bw \in {b \in DOMAIN idx : indexFileKey(b) = key} |-> idx[bw]]]

\* writeFileSync replaces the files the run produces and leaves every other
\* file of the directory as it was
writeFiles(old, new) ==
  [k \in DOMAIN old \cup DOMAIN new |-> IF k \in DOMAIN new THEN new[k] ELSE old[k]]

PreProcessCorpus(lines) ==
  LET sentences == allSentences(lines)
      n == numSentenceChunks(Len(sentences))
  IN /\ dataFiles' =
          [chunks |-> writeFiles(dataFiles.chunks,
                                 [i \in 0..(n - 1) |-> sentenceChunk(sentences, i)]),
           index |-> writeFiles(dataFiles.index, indexChunks(sentences)),
           metadata |-> {[totalSentences |-> Len(sentences),
                          sentenceChunkSize |-> SENTENCE_CHUNK_SIZE,
                          numSentenceChunks |-> n]}]
     /\ last' = Result("preProcess", NoUser, lines, "success")
     /\ UNCHANGED <<project, projectSentence, globalSentence, personalCorpus, corpusIndex, issued,
                    personalCorpusIndex, pending>>

----------------------------------------------------------------------------
(* The earlier copy of the actions: JSON global index, personalCorpusIndex *)

\* getGlobalIndexData: the sentence ids of a base word in its index file;
\* found is FALSE where the function returns null
getGlobalIndexData(files, baseWord) ==
  LET key == indexFileKey(baseWord)
  IN IF key \in DOMAIN files.index /\ baseWord \in DOMAIN files.index[key]
     THEN [found |-> TRUE, sentenceIds |-> files.index[key][baseWord]]
     ELSE [found |-> FALSE, sentenceIds |-> <<>>]

\* JSON.parse(await fs.readFile(metaPath)) throws where metadata.json is absent
metadataMissing(files) == files.metadata = {}

\* sentencesMap.set(id, ...) happens for this id: its chunk file is read and
\* holds a sentence at id % sentenceChunkSize
sentenceLoaded(files, id) ==
  LET size == (CHOOSE m \in files.metadata : TRUE).sentenceChunkSize
      chunkId == id \div size
  IN /\ chunkId \in DOMAIN files.chunks
     /\ (id % size) + 1 <= Len(files.chunks[chunkId])
     /\ files.chunks[chunkId][(id % size) + 1] # <<>>

\* getSentencesByIds, where metadata.json is present
getSentencesByIds(files, sentenceIds) ==
  IF sentenceIds = <<>> THEN <<>>
  ELSE LET size == (CHOOSE m \in files.metadata : TRUE).sentenceChunkSize
           got == SelectSeq(sentenceIds, LAMBDA id : sentenceLoaded(files, id))
       IN [k \in DOMAIN got |-> files.chunks[got[k] \div size][(got[k] % size) + 1]]

\* .slice(0, 20) on the sentence ids analyzeSentence resolves
LegacySlice == 20

\* the ids analyzeSentence takes from the personal index entry of a base word
legacyPersonalIds(pidx, uid, baseWord) ==
  LET i == FindFirst(pidx, baseWord, uid)
  IN IF i = 0 THEN <<>> ELSE Prefix(pidx[i].sentenceIds, LegacySlice)

\* the status of one token whose stripped form is word
legacyTokenStatus(files, pc, pidx, uid, word) ==
  LET baseWord == getBaseWord(word)
      globalSentenceIds ==
        Prefix(getGlobalIndexData(files, baseWord).sentenceIds, LegacySlice)
      allSentences2 ==
        Range(getSentencesByIds(files, globalSentenceIds))
          \cup personalTexts(pc, Range(legacyPersonalIds(pidx, uid, baseWord)))
      exactMatchFound == \E s \in allSentences2 : word \in Range(splitWords(s))
  IN IF allSentences2 = {} THEN "unknown"
     ELSE IF exactMatchFound THEN "correct" ELSE "variant"

\* getSentencesByIds throws for this token
legacyTokenThrows(files, word) ==
  /\ getGlobalIndexData(files, getBaseWord(word)).sentenceIds # <<>>
  /\ metadataMissing(files)

\* the loop over the tokens, i the 1-based position of the next token
RECURSIVE legacyAnalyzeFrom(_, _, _, _, _, _)
legacyAnalyzeFrom(files, pc, pidx, uid, words, i) ==
  IF i > Len(words) THEN <<>>
  ELSE LET word == stripPunct(words[i])
           rest == legacyAnalyzeFrom(files, pc, pidx, uid, words, i + 1)
       IN IF word = <<>> THEN rest
          ELSE <<Analysis(word, getBaseWord(word),
                          legacyTokenStatus(files, pc, pidx, uid, word), i - 1)>>
                 \o rest

legacyAnalyzeSentence(files, pc, pidx, caller, sentence) ==
  IF caller = NoUser THEN [error |-> "Unauthorized"]
  ELSE IF sentence = <<>> THEN [error |-> "Missing sentence"]
  ELSE IF \E w \in Range(splitWords(sentence)) :
            stripPunct(w) # <<>> /\ legacyTokenThrows(files, stripPunct(w))
  THEN [error |-> "Analysis failed"]
  ELSE [wordAnalyses |->
          legacyAnalyzeFrom(files, pc, pidx, caller, splitWords(sentence), 1)]

LegacyAnalyzeSentence(caller, sentence) ==
  /\ last' = Result("analyzeLegacy", caller, sentence,
                    legacyAnalyzeSentence(dataFiles, personalCorpus,
                                          personalCorpusIndex, caller, sentence))
  /\ UNCHANGED <<project, projectSentence, globalSentence, personalCorpus, corpusIndex, issued,
                 personalCorpusIndex, dataFiles, pending>>

\* prisma.personalCorpusIndex.upsert for the word at one position
legacyUpsert(pidx, uid, word, baseWord, id) ==
  LET i == FindFirst(pidx, baseWord, uid)
  IN IF i = 0 THEN Append(pidx, Row(baseWord, uid, <<word>>, <<id>>))
     ELSE [pidx EXCEPT ![i].variants = Append(@, word),
                       ![i].sentenceIds = Append(@, id)]

\* for (let i = 0; i < words.length; i++) { upsert }
RECURSIVE legacyUpsertAll(_, _, _, _)
legacyUpsertAll(pidx, uid, words, id) ==
  IF words = <<>> THEN pidx
  ELSE legacyUpsertAll(legacyUpsert(pidx, uid, words[1], getBaseWord(words[1]), id),
                       uid, Tail(words), id)

\* one iteration of the loop over the sentences
legacyAddSentence(st, uid, sentence) ==
  LET id == IdOf(st.n + 1)
      words == splitWords(sentence)
      baseWords == [i \in DOMAIN words |-> getBaseWord(words[i])]
      row == [sentence |-> sentence, words |-> words,
              baseWords |-> baseWords, userId |-> uid]
  IN Store(st.pc @@ (id :> row), legacyUpsertAll(st.idx, uid, words, id), st.n + 1)

RECURSIVE legacyAddAll(_, _, _)
legacyAddAll(st, uid, sentences) ==
  IF sentences = <<>> THEN st
  ELSE legacyAddAll(legacyAddSentence(st, uid, sentences[1]), uid, Tail(sentences))

LegacyAddToPersonalCorpus(caller, sentences) ==
  IF caller = NoUser
  THEN /\ last' = Result("addLegacy", caller, sentences, "Unauthorized")
       /\ UNCHANGED <<project, projectSentence, globalSentence, personalCorpus, corpusIndex, issued,
                      personalCorpusIndex, dataFiles, pending>>
  ELSE /\ issued + Len(sentences) <= MaxIds
       /\ LET st == legacyAddAll(Store(personalCorpus, personalCorpusIndex, issued),
                                 caller, sentences)
          IN /\ personalCorpus' = st.pc
             /\ personalCorpusIndex' = st.idx
             /\ issued' = st.n
       /\ last' = Result("addLegacy", caller, sentences, "success")
       /\ UNCHANGED <<project, projectSentence, globalSentence, corpusIndex, dataFiles, pending>>

(* lib/actions/analytics.ts: analyzeSentence by the recorded variants *)

\* .slice(0, 5) on the suggestions of a variant token
VariantSuggestions == 5

\* project ids an analysis may be called with; the empty one is falsy
ProjectIds == {<<"p">>, <<>>}

\* globalIndex?.variants || []: the index files hold, per base word, the
\* array of sentence ids, which has no property variants
globalVariants(files, baseWord) == <<>>

\* personalIndex?.variants || []
personalVariants(pidx, uid, baseWord) ==
  LET i == FindFirst(pidx, baseWord, uid)
  IN IF i = 0 THEN <<>> ELSE pidx[i].variants

\* the analysis of the token at the 1-based position i, which is not stripped
analyticsToken(files, pidx, uid, word, i) ==
  LET baseWord == getBaseWord(word)
      allVariants == globalVariants(files, baseWord)
                       \o personalVariants(pidx, uid, baseWord)
      status == IF allVariants = <<>> THEN "unknown"
                ELSE IF word \in Range(allVariants) THEN "correct" ELSE "variant"
  IN [word |-> word, baseWord |-> baseWord, status |-> status,
      suggestions |-> IF status = "variant"
                      THEN Prefix(uniqueSeq(allVariants), VariantSuggestions)
                      ELSE <<>>,
      position |-> i - 1]

analyticsAnalyzeSentence(files, pidx, caller, sentence, projectId) ==
  IF caller = NoUser THEN [error |-> "Unauthorized"]
  ELSE IF sentence = <<>> \/ projectId = <<>>
  THEN [error |-> "Missing sentence or projectId"]
  ELSE [wordAnalyses |->
          [i \in DOMAIN splitWords(sentence) |->
             analyticsToken(files, pidx, caller, splitWords(sentence)[i], i)]]

AnalyticsAnalyzeSentence(caller, sentence, projectId) ==
  /\ last' = Result("analyzeByVariants", caller, sentence,
                    analyticsAnalyzeSentence(dataFiles, personalCorpusIndex,
                                             caller, sentence, projectId))
  /\ UNCHANGED <<project, projectSentence, globalSentence, personalCorpus, corpusIndex, issued,
                 personalCorpusIndex, dataFiles, pending>>

(* getSuggestions of the earlier copy *)

\* .slice(0, 10) on the ids of the single mode and on the ranked ids of the
\* overlap mode
LegacySuggestLimit == 10

\* word lists a user may ask the earlier copy for suggestions for
LegacyWordLists == WordLists \cup { << <<"a", "a">>, <<"a">> >> }

\* the single mode: sentences of the first base word, global ones first
legacySuggestSingle(files, pc, pidx, uid, baseWord) ==
  LET globalIds == Prefix(getGlobalIndexData(files, baseWord).sentenceIds,
                          LegacySuggestLimit)
      i == FindFirst(pidx, baseWord, uid)
      personalIds == IF i = 0 THEN <<>>
                     ELSE Prefix(pidx[i].sentenceIds, LegacySuggestLimit)
  IN uniqueSeq(getSentencesByIds(files, globalIds)
                 \o textsOf(personalRows(pc, Range(personalIds))))

\* the overlapMap after the loop over the base words, which visits a base
\* word as often as the list holds it
RECURSIVE legacyOverlapIds(_, _)
legacyOverlapIds(files, baseWords) ==
  IF baseWords = <<>> THEN <<>>
  ELSE getGlobalIndexData(files, baseWords[1]).sentenceIds
         \o legacyOverlapIds(files, Tail(baseWords))

legacyOverlapCounts(files, baseWords) ==
  LET all == legacyOverlapIds(files, baseWords)
      keys == uniqueSeq(all)
  IN [j \in DOMAIN keys |-> [id |-> keys[j], overlap |-> occurrences(all, keys[j])]]

\* .filter(([, count]) => count > 1).sort(...).slice(0, 10)
legacyRank(counts) ==
  Prefix(sortByOverlap(SelectSeq(counts, LAMBDA e : e.overlap > 1)),
         LegacySuggestLimit)

\* the overlap mode: the ranked entry at position j gets sentences[j] of the
\* list getSentencesByIds returns, and is kept where that is a sentence
legacySuggestOverlap(files, baseWords) ==
  LET sorted == legacyRank(legacyOverlapCounts(files, baseWords))
      sentences == getSentencesByIds(files, [j \in DOMAIN sorted |-> sorted[j].id])
      kept == SelectSeq([j \in DOMAIN sorted |-> j], LAMBDA j : j <= Len(sentences))
  IN [j \in DOMAIN kept |->
        [id |-> sorted[kept[j]].id, sentence |-> sentences[kept[j]],
         overlap |-> sorted[kept[j]].overlap]]

\* getSentencesByIds is reached with ids while metadata.json is absent
legacySuggestThrows(files, baseWords, mode) ==
  /\ metadataMissing(files)
  /\ IF mode = "single"
     THEN getGlobalIndexData(files, baseWords[1]).sentenceIds # <<>>
     ELSE legacyRank(legacyOverlapCounts(files, baseWords)) # <<>>

legacyGetSuggestions(files, pc, pidx, caller, words, mode) ==
  LET baseWords == SelectSeq([j \in DOMAIN words |-> getBaseWord(words[j])],
                             LAMBDA b : b # <<>>)
  IN IF caller = NoUser THEN [error |-> "Unauthorized"]
     ELSE IF baseWords = <<>> THEN [type |-> mode, suggestions |-> <<>>]
     ELSE IF legacySuggestThrows(files, baseWords, mode)
     THEN [error |-> "Failed to get suggestions"]
     ELSE IF mode = "single"
     THEN [type |-> "single",
           suggestions |-> legacySuggestSingle(files, pc, pidx, caller, baseWords[1])]
     ELSE [type |-> "overlap", suggestions |-> legacySuggestOverlap(files, baseWords)]

LegacyGetSuggestions(caller, words, mode) ==
  /\ last' = Result("suggestLegacy", caller, [words |-> words, mode |-> mode],
                    legacyGetSuggestions(dataFiles, personalCorpus,
                                         personalCorpusIndex, caller, words, mode))
  /\ UNCHANGED <<project, projectSentence, globalSentence, personalCorpus, corpusIndex, issued,
                 personalCorpusIndex, dataFiles, pending>>

(* The earlier copy of the actions, on the files of the pre-processing script *)
NextLegacy ==
  \/ \E lines \in CorpusFiles : PreProcessCorpus(lines)
  \/ \E c \in Callers, b \in Batches(InputSentences) : LegacyAddToPersonalCorpus(c, b)
  \/ \E c \in Callers, t \in TypedSentences \cup {<<>>} : LegacyAnalyzeSentence(c, t)
  \/ \E c \in Callers, t \in TypedSentences \cup {<<>>}, p \in ProjectIds :
       AnalyticsAnalyzeSentence(c, t, p)
  \/ \E c \in Callers, w \in LegacyWordLists, m \in Modes : LegacyGetSuggestions(c, w, m)

SpecLegacy == Init /\ [][NextLegacy]_vars

----------------------------------------------------------------------------

(* addToPersonalCorpus, one await at a time: calls of several requests     *)
(* interleave between the database operations                              *)

\* a slip: the collection has no unique index
uniqueKeyNeverTaken(idx, bw, uid) == FALSE

\* the unique index on (baseWord, userId), the key baseWord_userId of the
\* upsert, rejects the creation of a second row with the same key
uniqueKeyTaken(idx, bw, uid) == FindFirst(idx, bw, uid) # 0

\* sentences of the call of request p whose rows are still to be created
reserved(p) ==
  IF pending[p].at = "idle" THEN 0
  ELSE Cardinality(NonBlank(pending[p].sentences))

RECURSIVE reservedBy(_)
reservedBy(P) ==
  IF P = {} THEN 0
  ELSE LET p == CHOOSE q \in P : TRUE IN reserved(p) + reservedBy(P \ {p})

\* the call starts: getCurrentUser, then the loop over the sentences
BeginAdd(p, caller, sentences) ==
  /\ pending[p].at = "idle"
  /\ IF caller = NoUser
     THEN /\ last' = Result("add", caller, sentences, "Unauthorized")
          /\ UNCHANGED pending
     ELSE /\ issued + reservedBy(Procs) + Cardinality(NonBlank(sentences)) <= MaxIds
          /\ pending' = [pending EXCEPT ![p] =
                           [at |-> "loop", uid |-> caller, arg |-> sentences,
                            sentences |-> sentences]]
          /\ UNCHANGED last
  /\ UNCHANGED <<project, projectSentence, globalSentence, personalCorpus, corpusIndex, issued,
                 personalCorpusIndex, dataFiles>>

\* the head of the loop over the sentences: return, skip a blank sentence,
\* or await prisma.personalCorpus.create
NextSentence(p) ==
  LET call == pending[p]
      sentence == call.sentences[1]
      words == splitWords(sentence)
      baseWords == [i \in DOMAIN words |-> getBaseWord(words[i])]
      id == IdOf(issued + 1)
  IN /\ call.at = "loop"
     /\ IF call.sentences = <<>>
        THEN /\ last' = Result("add", call.uid, call.arg, "success")
             /\ pending' = [pending EXCEPT ![p] = Idle]
             /\ UNCHANGED <<project, projectSentence, personalCorpus, issued>>
        ELSE IF trimIsEmpty(sentence)
        THEN /\ pending' = [pending EXCEPT ![p].sentences = Tail(@)]
             /\ UNCHANGED <<project, projectSentence, personalCorpus, issued, last>>
        ELSE /\ personalCorpus' =
                  personalCorpus @@
                    (id :> [sentence |-> sentence, words |-> words,
                            baseWords |-> baseWords, userId |-> call.uid])
             /\ issued' = issued + 1
             /\ pending' = [pending EXCEPT ![p] =
                              [at |-> "upsert", uid |-> call.uid, arg |-> call.arg,
                               sentences |-> Tail(call.sentences),
                               id |-> id, words |-> words,
                               todo |-> SelectSeq(indexedBaseWords(baseWords),
                                                  LAMBDA b : b # <<>>)]]
             /\ UNCHANGED last
     /\ UNCHANGED <<project, projectSentence, globalSentence, corpusIndex, personalCorpusIndex, dataFiles>>

\* the upsert looks the row of the next base word up by its key
FindEntry(p) ==
  LET call == pending[p]
  IN /\ call.at = "upsert"
     /\ IF call.todo = <<>>
        THEN pending' = [pending EXCEPT ![p] =
                           [at |-> "loop", uid |-> call.uid, arg |-> call.arg,
                            sentences |-> call.sentences]]
        ELSE pending' = [pending EXCEPT ![p] =
                           [at |-> "write", uid |-> call.uid, arg |-> call.arg,
                            sentences |-> call.sentences, id |-> call.id,
                            words |-> call.words, todo |-> call.todo,
                            found |-> FindFirst(corpusIndex, call.todo[1], call.uid) # 0]]
     /\ UNCHANGED <<project, projectSentence, globalSentence, personalCorpus, corpusIndex, issued, last,
                    personalCorpusIndex, dataFiles>>

\* the upsert writes: the update of the row it found, or the creation of a
\* row, which throws into the catch of the call where the key is taken
WriteEntry(p) ==
  LET call == pending[p]
      bw == call.todo[1]
      continue == [at |-> "upsert", uid |-> call.uid, arg |-> call.arg,
                   sentences |-> call.sentences, id |-> call.id,
                   words |-> call.words, todo |-> Tail(call.todo)]
  IN /\ call.at = "write"
     /\ IF call.found
        THEN /\ corpusIndex' = upsertUpdate(corpusIndex,
                                            FindFirst(corpusIndex, bw, call.uid),
                                            bw, call.words, call.id)
             /\ pending' = [pending EXCEPT ![p] = continue]
             /\ UNCHANGED last
        ELSE IF uniqueKeyTaken(corpusIndex, bw, call.uid)
        THEN /\ last' = Result("add", call.uid, call.arg,
                               "Failed to update personal corpus")
             /\ pending' = [pending EXCEPT ![p] = Idle]
             /\ UNCHANGED corpusIndex
        ELSE /\ corpusIndex' = upsertCreate(corpusIndex, call.uid, bw,
                                            call.words, call.id)
             /\ pending' = [pending EXCEPT ![p] = continue]
             /\ UNCHANGED last
     /\ UNCHANGED <<project, projectSentence, globalSentence, personalCorpus, issued,
                    personalCorpusIndex, dataFiles>>

\* the sentences added by the calls that interleave
ConcSentences == { <<"a", " ", "b">>, <<"a", "a", " ", "a">> }

(* Seeding and addToPersonalCorpus calls whose awaits interleave *)
NextConc ==
  \/ \E lines \in Corpora : SeedGlobal(lines)
  \/ \E p \in Procs, c \in Users, b \in Batches(ConcSentences) : BeginAdd(p, c, b)
  \/ \E p \in Procs : NextSentence(p)
  \/ \E p \in Procs : FindEntry(p)
  \/ \E p \in Procs : WriteEntry(p)

SpecConc == Init /\ [][NextConc]_vars

----------------------------------------------------------------------------

(* deletePersonalCorpusSentence, one await at a time, beside an            *)
(* addToPersonalCorpus call of another request                             *)

\* the request that adds and the request that deletes
Adder == 1

Deleter == 2

\* the call starts: getCurrentUser, the id test, personalCorpus.findFirst
BeginDelete(p, caller, sentenceId) ==
  /\ pending[p].at = "idle"
  /\ IF caller = NoUser
     THEN /\ last' = Result("deleteSentence", caller, sentenceId, "Unauthorized")
          /\ UNCHANGED pending
     ELSE IF sentenceId = <<>>
     THEN /\ last' = Result("deleteSentence", caller, sentenceId,
                            "Sentence ID is required")
          /\ UNCHANGED pending
     ELSE IF ~ownsSentence(personalCorpus, sentenceId, caller)
     THEN /\ last' = Result("deleteSentence", caller, sentenceId,
                            "Sentence not found")
          /\ UNCHANGED pending
     ELSE /\ pending' = [pending EXCEPT ![p] =
                           [at |-> "read", uid |-> caller, id |-> sentenceId,
                            sentences |-> <<>>,
                            todo |-> cleanedBaseWords(personalCorpus[sentenceId])]]
          /\ UNCHANGED last
  /\ UNCHANGED <<project, projectSentence, globalSentence, personalCorpus, corpusIndex, issued,
                 personalCorpusIndex, dataFiles>>

\* corpusIndex.findFirst({baseWord, userId}).then(filter): the list the
\* update is going to set, computed from the entry as it is read now
DeleteRead(p) ==
  LET call == pending[p]
      i == FindFirst(corpusIndex, call.todo[1], call.uid)
  IN /\ call.at = "read"
     /\ call.todo # <<>>
     /\ pending' = [pending EXCEPT ![p] =
                      [at |-> "set", uid |-> call.uid, id |-> call.id,
                       sentences |-> <<>>, todo |-> call.todo,
                       set |-> IF i = 0 THEN <<>>
                               ELSE SelectSeq(corpusIndex[i].sentenceIds,
                                              LAMBDA x : x # call.id)]]
     /\ UNCHANGED <<project, projectSentence, globalSentence, personalCorpus, corpusIndex, issued, last,
                    personalCorpusIndex, dataFiles>>

\* corpusIndex.updateMany({baseWord, userId}, {sentenceIds: {set: ...}})
DeleteSet(p) ==
  LET call == pending[p]
  IN /\ call.at = "set"
     /\ corpusIndex' =
          [i \in DOMAIN corpusIndex |->
             IF corpusIndex[i].baseWord = call.todo[1] /\ corpusIndex[i].userId = call.uid
             THEN [corpusIndex[i] EXCEPT !.sentenceIds = call.set]
             ELSE corpusIndex[i]]
     /\ pending' = [pending EXCEPT ![p] =
                      [at |-> "read", uid |-> call.uid, id |-> call.id,
                       sentences |-> <<>>, todo |-> Tail(call.todo)]]
     /\ UNCHANGED <<project, projectSentence, globalSentence, personalCorpus, issued, last,
                    personalCorpusIndex, dataFiles>>

\* personalCorpus.delete({id}), then return {success: true}
DeleteRow(p) ==
  LET call == pending[p]
  IN /\ call.at = "read"
     /\ call.todo = <<>>
     /\ IF call.id \in DOMAIN personalCorpus
        THEN /\ personalCorpus' = DropKey(personalCorpus, call.id)
             /\ last' = Result("deleteSentence", call.uid, call.id, "success")
        ELSE /\ last' = Result("deleteSentence", call.uid, call.id,
                               "Failed to delete sentence")
             /\ UNCHANGED personalCorpus
     /\ pending' = [pending EXCEPT ![p] = Idle]
     /\ UNCHANGED <<project, projectSentence, globalSentence, corpusIndex, issued,
                    personalCorpusIndex, dataFiles>>

(* One request adds while another deletes *)
NextRace ==
  \/ \E c \in Users, b \in Batches(ConcSentences) : BeginAdd(Adder, c, b)
  \/ NextSentence(Adder)
  \/ FindEntry(Adder)
  \/ WriteEntry(Adder)
  \/ \E c \in Users, id \in IdPool \cup {<<>>} : BeginDelete(Deleter, c, id)
  \/ DeleteRead(Deleter)
  \/ DeleteSet(Deleter)
  \/ DeleteRow(Deleter)

SpecRace == Init /\ [][NextRace]_vars

----------------------------------------------------------------------------

(* getBaseWord applied to every string up to a length *)

\* the characters of the strings getBaseWord is applied to
Alphabet == {"a", "b", "A", "-", " ", "\n"}

\* the strings over the alphabet that are at most MaxWordLen long
Strings == UNION {[1..k -> Alphabet] : k \in 0..MaxWordLen}

GetBaseWord(x) ==
  /\ last' = Result("getBaseWord", NoUser, x, getBaseWord(x))
  /\ UNCHANGED <<project, projectSentence, globalSentence, personalCorpus, corpusIndex, issued,
                 personalCorpusIndex, dataFiles, pending>>

NextNorm == \E x \in Strings : GetBaseWord(x)

SpecNorm == Init /\ [][NextNorm]_vars

----------------------------------------------------------------------------

(* The writes, by authenticated users, with every error return *)
Next ==
  \/ \E lines \in Corpora : SeedGlobal(lines)
  \/ \E c \in Users, b \in Batches(WriteSentences) : AddToPersonalCorpus(c, b)
  \/ \E c \in Users, id \in IdPool \cup {<<>>} : DeletePersonalCorpusSentence(c, id)
  \/ \E c \in Users, bw \in BaseWordInputs : DeletePersonalCorpusEntry(c, bw)

Spec == Init /\ [][Next]_vars

(* The queries.  The store is built by writes that take effect; a query    *)
(* returns without writing, so every store reached after a query is        *)
(* reached without it, and a run is followed up to its first query.        *)
QueryOps == {"analyze", "suggest"}

OwnSentenceIds(c) == {x \in DOMAIN personalCorpus : personalCorpus[x].userId = c}

OwnBaseWords(c) ==
  {corpusIndex[i].baseWord : i \in {j \in DOMAIN corpusIndex : corpusIndex[j].userId = c}}

NextQ ==
  /\ last.op \notin QueryOps
  /\ \/ \E lines \in Corpora : SeedGlobal(lines)
     \/ \E c \in Users, b \in Batches(InputSentences) : AddToPersonalCorpus(c, b)
     \/ \E c \in Users : \E id \in OwnSentenceIds(c) : DeletePersonalCorpusSentence(c, id)
     \/ \E c \in Users : \E bw \in OwnBaseWords(c) : DeletePersonalCorpusEntry(c, bw)
     \/ \E c \in Users, t \in TypedSentences : AnalyzeSentence(c, t)
     \/ \E c \in Users, w \in WordLists, m \in Modes : GetSuggestions(c, w, m)

SpecQ == Init /\ [][NextQ]_vars

----------------------------------------------------------------------------
(* analyzeSentence when the index read of one token is rejected *)

\* analyzeSentence where prisma.corpusIndex.findMany throws for the token at
\* the 1-based position k: the throw leaves the loop for the catch of the call
analyzeSentenceReadFails(gs, pc, idx, caller, sentence, k) ==
  IF caller = NoUser THEN [error |-> "Unauthorized"]
  ELSE IF trimIsEmpty(sentence) THEN [wordAnalyses |-> <<>>]
  ELSE IF k \in DOMAIN splitWords(sentence) /\ stripPunct(splitWords(sentence)[k]) # <<>>
  THEN [error |-> "Analysis failed due to a server error."]
  ELSE [wordAnalyses |-> analyzeFrom(gs, pc, idx, caller, splitWords(sentence), 1)]

AnalyzeSentenceReadFails(caller, sentence, k) ==
  /\ last' = Result("analyzeReadFails", caller, [sentence |-> sentence, failed |-> k],
                    analyzeSentenceReadFails(globalSentence, personalCorpus,
                                             corpusIndex, caller, sentence, k))
  /\ UNCHANGED <<project, projectSentence, globalSentence, personalCorpus, corpusIndex, issued,
                 personalCorpusIndex, dataFiles, pending>>

\* the token positions whose read may be rejected
FailPositions == 1..2

(* Stores built by the seed and by additions, then one analysis in which a *)
(* read is rejected                                                        *)
NextReadFails ==
  /\ last.op # "analyzeReadFails"
  /\ \/ \E lines \in Corpora : SeedGlobal(lines)
     \/ \E c \in Users, b \in Batches(InputSentences) : AddToPersonalCorpus(c, b)
     \/ \E c \in Users, t \in TypedSentences, k \in FailPositions :
          AnalyzeSentenceReadFails(c, t, k)

SpecReadFails == Init /\ [][NextReadFails]_vars

----------------------------------------------------------------------------
(* Calls without a session, on every store the writes of the users build *)
NextAuth ==
  \/ \E lines \in Corpora : SeedGlobal(lines)
  \/ \E c \in Users, b \in Batches(WriteSentences) : AddToPersonalCorpus(c, b)
  \/ \E c \in Users : \E id \in OwnSentenceIds(c) : DeletePersonalCorpusSentence(c, id)
  \/ \E c \in Users : \E bw \in OwnBaseWords(c) : DeletePersonalCorpusEntry(c, bw)
  \/ \E b \in Batches(WriteSentences) : AddToPersonalCorpus(NoUser, b)
  \/ \E id \in IdPool : DeletePersonalCorpusSentence(NoUser, id)
  \/ \E bw \in BaseWordInputs : DeletePersonalCorpusEntry(NoUser, bw)
  \/ \E t \in TypedSentences : AnalyzeSentence(NoUser, t)
  \/ \E w \in WordLists, m \in Modes : GetSuggestions(NoUser, w, m)

SpecAuth == Init /\ [][NextAuth]_vars

----------------------------------------------------------------------------
(* The writes on sentences whose tokens share a base word *)

\* the second sentence holds two different tokens of the base word "a"
VariantSentences == { <<"a", " ", "b">>, <<"a", " ", "a", "a">> }

NextVariants ==
  \/ \E c \in Users, b \in Batches(VariantSentences) : AddToPersonalCorpus(c, b)
  \/ \E c \in Users, id \in IdPool : DeletePersonalCorpusSentence(c, id)
  \/ \E c \in Users, bw \in BaseWordInputs : DeletePersonalCorpusEntry(c, bw)

SpecVariants == Init /\ [][NextVariants]_vars

----------------------------------------------------------------------------
(* Index building: the seeding scripts beside addToPersonalCorpus *)

MaxList == 3

\* the sentences of a corpus that is seeded and also ingested one by one
BuildSentences ==
  { <<"a", " ", "b">>, <<"a", " ", "a", "a">>, <<"b", " ", "b">>,
    <<"a", "b", " ", "a">>, <<" ">> }

\* seedGlobalCorpus: the index over the sentences of the chunk files, which
\* are not deduplicated; one sentenceIds.push per base word of a sentence
seedGlobalCorpus(lines) == seedIndex(<<>>, allSentences(lines), 1)

\* the index rows as base word, set of variants and texts of the sentences
\* referenced, in the order of the references
indexShape(rows, textOf) ==
  { [baseWord |-> rows[i].baseWord,
     variants |-> Range(rows[i].variants),
     sentences |-> [k \in DOMAIN rows[i].sentenceIds |->
                      textOf[rows[i].sentenceIds[k]]]] : i \in DOMAIN rows }

\* the three index builders run on the same list of sentences
buildIndexes(lines) ==
  LET uniq == uniqueSentences(lines)
      all == allSentences(lines)
      st == addAll(Store(<< >>, << >>, 0), "u1", lines)
  IN [main |-> indexShape(seedIndex(<<>>, uniq, 1),
                          [id \in {natToStr(k) : k \in DOMAIN uniq} |->
                             uniq[CHOOSE k \in DOMAIN uniq : natToStr(k) = id]]),
      seedGlobalCorpus |-> indexShape(seedGlobalCorpus(lines),
                          [id \in {natToStr(k) : k \in DOMAIN all} |->
                             all[CHOOSE k \in DOMAIN all : natToStr(k) = id]]),
      addToPersonalCorpus |-> indexShape(st.idx,
                          [id \in DOMAIN st.pc |-> st.pc[id].sentence])]

BuildIndexes(lines) ==
  /\ last' = Result("buildIndexes", NoUser, lines, buildIndexes(lines))
  /\ UNCHANGED <<project, projectSentence, globalSentence, personalCorpus, corpusIndex, issued,
                 personalCorpusIndex, dataFiles, pending>>

NextBuild ==
  \E lines \in UNION {[1..n -> BuildSentences] : n \in 1..MaxList} :
    BuildIndexes(lines)

SpecBuild == Init /\ [][NextBuild]_vars

----------------------------------------------------------------------------
(* The pre-processing script run again, beside the suggestions that read its files *)

\* corpus files of three sentences, of one sentence, and with a blank line
ChunkCorpora ==
  { << <<"a">>, <<"b", " ", "b", "a", " ", "b", "a", "b">>, <<"a", "b", " ", "a">> >>,
    << <<"a", " ", "a", "b">> >>,
    << <<"b">>, <<" ">>, <<"a">> >>,
    << <<"a">>, <<"a", "b", " ", "a">>, <<"a">> >> }

ChunkWordLists ==
  { << <<"b">>, <<"b", "a">>, <<"b", "a", "b">>, <<"a">>, <<"a", "b">> >>,
    << <<"a">>, <<"a", "b">> >> }

NextChunks ==
  \/ \E lines \in ChunkCorpora : PreProcessCorpus(lines)
  \/ \E c \in Users, w \in ChunkWordLists, m \in Modes : LegacyGetSuggestions(c, w, m)

SpecChunks == Init /\ [][NextChunks]_vars

----------------------------------------------------------------------------
(* Projects: lib/actions/projects.ts, its later copy with the sentence sync, *)
(* and enforceProjectSentences                                              *)

\* the ids the database gives the projects, in the order of their creation
ProjectKeys == <<"p1">>

\* the data objects the editor sends to updateProject
Contents ==
  { <<"b", " ", "b">>,
    <<"b", " ", "b", "\n", "a", "a">>,
    <<"a", "a">> }

\* content.split("\n")
RECURSIVE splitLines(_)
splitLines(s) ==
  IF \A j \in DOMAIN s : s[j] # "\n" THEN <<s>>
  ELSE LET k == CHOOSE j \in DOMAIN s :
                  s[j] = "\n" /\ \A h \in 1..(j - 1) : s[h] # "\n"
       IN <<SubSeq(s, 1, k - 1)>> \o splitLines(SubSeq(s, k + 1, Len(s)))

\* createProject of the later copy; isEnforced and status start at the
\* defaults of the schema, taken to be FALSE and a status other than archived
CreateProject(caller) ==
  /\ Cardinality(DOMAIN project) < Len(ProjectKeys)
  /\ LET id == ProjectKeys[Cardinality(DOMAIN project) + 1]
     IN /\ project' = project @@
             (id :> [userId |-> caller, title |-> "t1", content |-> <<>>,
                     completionRate |-> 0, isEnforced |-> FALSE,
                     status |-> "draft"])
        /\ last' = Result("createProject", caller, <<>>, id)
  /\ UNCHANGED <<globalSentence, personalCorpus, corpusIndex, issued,
                 personalCorpusIndex, dataFiles, pending, projectSentence>>

\* the row of a project at a position: existingSentences.find(s => s.position === i),
\* 0 when there is none
sentenceAt(rows, pid, i) ==
  LET at == {j \in DOMAIN rows : rows[j].projectId = pid /\ rows[j].position = i}
  IN IF at = {} THEN 0 ELSE CHOOSE j \in at : \A h \in at : j <= h

\* the status and analysis stored for a line from the result of analyzeSentence
analysed(pid, text, i, result) ==
  LET wordAnalyses == IF "wordAnalyses" \in DOMAIN result
                      THEN result.wordAnalyses ELSE <<>>
      isComplete == \A j \in DOMAIN wordAnalyses : wordAnalyses[j].status = "correct"
  IN [projectId |-> pid, text |-> text, position |-> i,
      status |-> IF isComplete THEN "complete" ELSE "partial",
      analysis |-> wordAnalyses]

\* the loop of syncAndAnalyzeSentences with its operations applied; results[i + 1]
\* is what analyzeSentence returns for line i
RECURSIVE syncFrom(_, _, _, _, _, _)
syncFrom(rows, pid, lines, results, i, maxPosition) ==
  IF i >= maxPosition THEN rows
  ELSE LET old == sentenceAt(rows, pid, i)
           next ==
             IF i < Len(lines) /\ old = 0
             THEN Append(rows, analysed(pid, lines[i + 1], i, results[i + 1]))
             ELSE IF i < Len(lines) /\ old # 0 /\ lines[i + 1] # rows[old].text
             THEN [rows EXCEPT ![old] = analysed(pid, lines[i + 1], i, results[i + 1])]
             ELSE IF i >= Len(lines) /\ old # 0
             THEN RemoveAt(rows, old)
             ELSE rows
       IN syncFrom(next, pid, lines, results, i + 1, maxPosition)

\* a slip: the loop ends at the last line, the rows beyond it stay
syncUpToLastLine(rows, pid, content, results) ==
  syncFrom(rows, pid, splitLines(content), results, 0, Len(splitLines(content)))

syncAndAnalyzeSentences(rows, pid, content, results) ==
  LET sentencesText == splitLines(content)
      existing == Cardinality({j \in DOMAIN rows : rows[j].projectId = pid})
  IN syncFrom(rows, pid, sentencesText, results, 0,
              IF Len(sentencesText) > existing THEN Len(sentencesText) ELSE existing)

\* calculateProjectStats of the later copy: the completionRate, Math.round
calculateProjectStats(rows, pid) ==
  LET total == Cardinality({j \in DOMAIN rows : rows[j].projectId = pid})
      complete == Cardinality({j \in DOMAIN rows :
                     rows[j].projectId = pid /\ rows[j].status = "complete"})
  IN IF total = 0 THEN 0 ELSE (200 * complete + total) \div (2 * total)

\* stands for no line at all where a line with a rejected read is named
NoLine == 9

\* updateProject of the later copy; failedLine is the line whose analysis
\* meets a rejected read
UpdateProject(caller, projectId, data, failedLine) ==
  LET syncs == "content" \in DOMAIN data /\ data.content # project[projectId].content
      lines == IF syncs THEN splitLines(data.content) ELSE <<>>
      results == [k \in DOMAIN lines |->
                    IF k - 1 = failedLine
                    THEN analyzeSentenceReadFails(globalSentence, personalCorpus,
                                                  corpusIndex, caller, lines[k], 1)
                    ELSE analyzeSentence(globalSentence, personalCorpus,
                                         corpusIndex, caller, lines[k])]
      synced == IF syncs
                THEN syncAndAnalyzeSentences(projectSentence, projectId,
                                             data.content, results)
                ELSE projectSentence
      arg == [projectId |-> projectId, data |-> data, failedLine |-> failedLine]
  IN /\ IF caller = NoUser
        THEN /\ last' = Result("updateProject", caller, arg, "Unauthorized")
             /\ UNCHANGED <<project, projectSentence>>
        ELSE /\ projectSentence' = synced
             /\ IF project[projectId].userId # caller
                THEN /\ last' = Result("updateProject", caller, arg,
                                       "Failed to update project")
                     /\ UNCHANGED project
                ELSE /\ project' =
                          [project EXCEPT
                             ![projectId].title =
                                IF "title" \in DOMAIN data THEN data.title ELSE @,
                             ![projectId].content =
                                IF "content" \in DOMAIN data THEN data.content ELSE @,
                             ![projectId].completionRate =
                                calculateProjectStats(synced, projectId)]
                     /\ last' = Result("updateProject", caller, arg, "success")
     /\ UNCHANGED <<globalSentence, personalCorpus, corpusIndex, issued,
                    personalCorpusIndex, dataFiles, pending>>

\* updateProject of lib/actions/projects.ts: title and description only
UpdateProjectDetails(caller, projectId, data) ==
  LET arg == [projectId |-> projectId, data |-> data]
  IN /\ IF caller = NoUser
        THEN /\ last' = Result("updateDetails", caller, arg, "Unauthorized")
             /\ UNCHANGED project
        ELSE IF project[projectId].userId # caller
        THEN /\ last' = Result("updateDetails", caller, arg, "Failed to update project")
             /\ UNCHANGED project
        ELSE /\ project' = [project EXCEPT ![projectId].title = data.title]
             /\ last' = Result("updateDetails", caller, arg, "success")
     /\ UNCHANGED <<globalSentence, personalCorpus, corpusIndex, issued,
                    personalCorpusIndex, dataFiles, pending, projectSentence>>

\* a slip: the texts of all sentences of a project, whatever their status
everyText(rows, pid) ==
  LET found == SelectSeq(rows, LAMBDA r : r.projectId = pid)
  IN [j \in DOMAIN found |-> found[j].text]

\* the texts of the complete sentences of a project, in the order of the rows
completeTexts(rows, pid) ==
  LET found == SelectSeq(rows, LAMBDA r : r.projectId = pid /\ r.status = "complete")
  IN [j \in DOMAIN found |-> found[j].text]

\* enforceProjectSentences; addFails tells that a write of addToPersonalCorpus
\* is rejected
EnforceProjectSentences(caller, projectId, addFails) ==
  LET sentences == completeTexts(projectSentence, projectId)
      st == addAll(Store(personalCorpus, corpusIndex, issued), caller, sentences)
      error(e) == /\ last' = Result("enforce", caller, projectId, e)
                  /\ UNCHANGED <<project, personalCorpus, corpusIndex, issued>>
  IN /\ IF caller = NoUser THEN error("Unauthorized")
        ELSE IF projectId = "" THEN error("Project ID is required")
        ELSE IF projectId \notin DOMAIN project \/ project[projectId].userId # caller
        THEN error("Project not found")
        ELSE IF project[projectId].completionRate < 100
        THEN error("Project must be 100% complete to enforce")
        ELSE IF sentences = <<>> THEN error("No complete sentences to enforce")
        ELSE IF addFails THEN error("Failed to update personal corpus")
        ELSE /\ st.n <= MaxIds
             /\ personalCorpus' = st.pc
             /\ corpusIndex' = st.idx
             /\ issued' = st.n
             /\ project' = [project EXCEPT ![projectId].isEnforced = TRUE,
                                           ![projectId].status = "archived"]
             /\ last' = Result("enforce", caller, projectId, "success")
     /\ UNCHANGED <<globalSentence, personalCorpusIndex, dataFiles, pending,
                    projectSentence>>

NextProj ==
  \/ \E lines \in Corpora : SeedGlobal(lines)
  \/ \E c \in Users : CreateProject(c)
  \/ \E c \in Users, p \in DOMAIN project, f \in {0, NoLine},
          d \in {[content |-> t] : t \in Contents} \cup {[title |-> "t2"]} :
       UpdateProject(c, p, d, f)
  \/ \E p \in DOMAIN project : UpdateProject(NoUser, p, [title |-> "t2"], NoLine)
  \/ \E c \in Users, p \in DOMAIN project : UpdateProjectDetails(c, p, [title |-> "t2"])
  \/ \E c \in Users, p \in DOMAIN project \cup {""}, f \in BOOLEAN :
       EnforceProjectSentences(c, p, f)

SpecProj == Init /\ [][NextProj]_vars

----------------------------------------------------------------------------
(* Properties *)

PersonalOf(u) == [x \in {y \in DOMAIN personalCorpus : personalCorpus[y].userId = u}
                    |-> personalCorpus[x]]

EntriesOf(u) == SelectSeq(corpusIndex, LAMBDA r : r.userId = u)

WriteOps == {"add", "deleteSentence", "deleteEntry"}

\* C1: every sentence id listed in an index entry of a user identifies a
\* personalCorpus sentence that still exists (no dangling reference).
C1_NoDanglingReference ==
  \A i \in DOMAIN corpusIndex :
    corpusIndex[i].userId # GlobalScope =>
      \A x \in Range(corpusIndex[i].sentenceIds) : x \in DOMAIN personalCorpus

\* C2: once a sentence is in the caller's personal corpus, analyzeSentence on
\* the same sentence returns status correct for every token it reports.
C2_RoundTrip ==
  (/\ last.op = "analyze"
   /\ \E x \in OwnSentenceIds(last.caller) : personalCorpus[x].sentence = last.arg)
  => /\ "wordAnalyses" \in DOMAIN last.result
     /\ \A k \in DOMAIN last.result.wordAnalyses :
          last.result.wordAnalyses[k].status = "correct"

\* C3: after deletePersonalCorpusSentence(id) succeeds the sentence is gone
\* and no index entry of the caller lists id.
C3_DeletionCascade ==
  (last.op = "deleteSentence" /\ last.result = "success")
  => /\ last.arg \notin DOMAIN personalCorpus
     /\ \A i \in DOMAIN corpusIndex :
          corpusIndex[i].userId = last.caller =>
            last.arg \notin Range(corpusIndex[i].sentenceIds)

\* a sentence was deleted while another sentence keeps an entry it shared
C3_Witness ==
  /\ last.op = "deleteSentence" /\ last.result = "success"
  /\ \E i \in DOMAIN corpusIndex :
       /\ corpusIndex[i].userId = last.caller
       /\ corpusIndex[i].sentenceIds # <<>>
  /\ \E i \in DOMAIN corpusIndex :
       /\ corpusIndex[i].userId = last.caller
       /\ corpusIndex[i].sentenceIds = <<>>

\* the store as a user other than u would leave it had they no personal data
restrictPc(pc, u) == [x \in {y \in DOMAIN pc : pc[y].userId = u} |-> pc[x]]

restrictIdx(idx, u) == SelectSeq(idx, LAMBDA r : r.userId \in {GlobalScope, u})

\* C6: the result of a query by user Y is the result the same query gives on
\* the store with every other user's sentences and index entries removed.
C6_ScopeIsolation ==
  /\ last.op = "analyze" =>
       last.result = analyzeSentence(globalSentence,
                                     restrictPc(personalCorpus, last.caller),
                                     restrictIdx(corpusIndex, last.caller),
                                     last.caller, last.arg)
  /\ last.op = "suggest" =>
       last.result = getSuggestions(globalSentence,
                                    restrictPc(personalCorpus, last.caller),
                                    restrictIdx(corpusIndex, last.caller),
                                    last.caller, last.arg.words, last.arg.mode)

\* a token is unknown to the caller while another user has an entry for it
C6_Witness ==
  /\ last.op = "analyze"
  /\ "wordAnalyses" \in DOMAIN last.result
  /\ \E k \in DOMAIN last.result.wordAnalyses :
       /\ last.result.wordAnalyses[k].status = "unknown"
       /\ \E i \in DOMAIN corpusIndex :
            /\ corpusIndex[i].userId \in Users \ {last.caller}
            /\ corpusIndex[i].baseWord = last.result.wordAnalyses[k].baseWord
            /\ corpusIndex[i].sentenceIds # <<>>

\* C7: a corpus write by user Y changes no personal sentence or index entry of
\* another user and nothing global; a delete naming a sentence or entry the
\* caller does not own returns an error and changes nothing.
C7_WriteFrame ==
  [][ last'.op \in WriteOps =>
        /\ \A x \in Users \ {last'.caller} :
             /\ PersonalOf(x)' = PersonalOf(x)
             /\ EntriesOf(x)' = EntriesOf(x)
        /\ globalSentence' = globalSentence
        /\ EntriesOf(GlobalScope)' = EntriesOf(GlobalScope)
        /\ (/\ last'.op = "deleteSentence"
            /\ ~(/\ last'.arg \in DOMAIN personalCorpus
                 /\ personalCorpus[last'.arg].userId = last'.caller))
           => /\ last'.result # "success"
              /\ UNCHANGED <<globalSentence, personalCorpus, corpusIndex>>
        /\ (/\ last'.op = "deleteEntry"
            /\ RowsFor(corpusIndex, last'.arg, last'.caller) = {})
           => /\ last'.result # "success"
              /\ UNCHANGED <<globalSentence, personalCorpus, corpusIndex>>
    ]_vars

\* a user was refused the deletion of a sentence that another user owns
C7_Witness ==
  /\ last.op = "deleteSentence"
  /\ last.result = "Sentence not found"
  /\ last.arg \in DOMAIN personalCorpus
  /\ personalCorpus[last.arg].userId \in Users \ {last.caller}
  /\ \E i \in DOMAIN corpusIndex : corpusIndex[i].userId = GlobalScope

\* the sentences and variants the index resolves for a base word and a caller
attestedTokens(bw, u) ==
  LET rows == findEntries(corpusIndex, {bw}, u)
      texts == globalTexts(globalSentence,
                           {Number(x) : x \in Range(idsOf(rows, TRUE))})
                 \cup personalTexts(personalCorpus, Range(idsOf(rows, FALSE)))
  IN UNION {Range(splitWords(t)) : t \in texts}
       \cup UNION {Range(rows[j].variants) : j \in DOMAIN rows}

\* C9: a token of a known base word is correct only if its stripped form is
\* the stripped form of a whole token, spelled the same, of a sentence or
\* variant resolved for the base word; otherwise it is variant.
C9_CorrectOnlyIfAttested ==
  (last.op = "analyze" /\ "wordAnalyses" \in DOMAIN last.result) =>
    \A k \in DOMAIN last.result.wordAnalyses :
      LET a == last.result.wordAnalyses[k]
          attested == \E t \in attestedTokens(a.baseWord, last.caller) :
                        stripPunct(t) = stripPunct(a.word)
      IN /\ a.status = "correct" => attested
         /\ (a.status # "unknown" /\ ~attested) => a.status = "variant"

\* the sentences of the caller's view that at least two of the query's base
\* words list: <<scope, id>> pairs of sentences that exist
qualifying(u, words) ==
  LET bws == {getBaseWord(w) : w \in Range(words)} \ {<<>>}
      lists(scope, id) ==
        {bw \in bws : \E i \in RowsFor(corpusIndex, bw, scope) :
                        id \in Range(corpusIndex[i].sentenceIds)}
  IN {<<GlobalScope, natToStr(k)>> : k \in
        {j \in DOMAIN globalSentence :
           Cardinality(lists(GlobalScope, natToStr(j))) > 1}}
     \cup {<<u, x>> : x \in
        {y \in OwnSentenceIds(u) : Cardinality(lists(u, y)) > 1}}

\* C10: the overlap mode returns only sentences with a count above 1, in
\* non-increasing order of count, and (below the fixed bound) all of them: with
\* A, B, C matching 3, 2 and 1 query words the result is [A, B].
C10_OverlapRanking ==
  (/\ last.op = "suggest" /\ last.arg.mode = "overlap"
   /\ "suggestions" \in DOMAIN last.result) =>
    LET r == last.result.suggestions
    IN /\ \A k \in DOMAIN r : r[k].overlap > 1
       /\ \A j, k \in DOMAIN r : j < k => r[j].overlap >= r[k].overlap
       /\ Cardinality(qualifying(last.caller, last.arg.words)) <= OverlapLimit
            => Len(r) = Cardinality(qualifying(last.caller, last.arg.words))

\* no sentence id occurs twice in the list q
noRepeat(q) == \A i, j \in DOMAIN q : q[i] = q[j] => i = j

\* C4: no index entry lists the same sentence id twice, in the index files
\* of the batch build and in the entries addToPersonalCorpus writes, also
\* when a sentence holds the same base word more than once.
C4_IndexDedup ==
  /\ \A i \in DOMAIN corpusIndex : noRepeat(corpusIndex[i].sentenceIds)
  /\ \A i \in DOMAIN personalCorpusIndex : noRepeat(personalCorpusIndex[i].sentenceIds)
  /\ \A key \in DOMAIN dataFiles.index :
       \A bw \in DOMAIN dataFiles.index[key] : noRepeat(dataFiles.index[key][bw])

\* an index entry for the base word exists in the global scope or in the
\* caller's scope, in the store the operation op reads
entryExists(op, bw, u) ==
  IF op = "analyze"
  THEN findEntries(corpusIndex, {bw}, u) # <<>>
  ELSE \/ getGlobalIndexData(dataFiles, bw).found
       \/ FindFirst(personalCorpusIndex, bw, u) # 0

\* C8: analyzeSentence gives a token the status unknown exactly when no
\* index entry for its base word exists in the global scope or the caller's
\* scope, and an unknown token has no suggestions.
C8_UnknownIffNoEntry ==
  (last.op \in {"analyze", "analyzeLegacy"} /\ "wordAnalyses" \in DOMAIN last.result) =>
    \A k \in DOMAIN last.result.wordAnalyses :
      LET a == last.result.wordAnalyses[k]
      IN /\ a.status = "unknown" <=> ~entryExists(last.op, a.baseWord, last.caller)
         /\ a.status = "unknown" => a.suggestions = <<>>

\* C5: there is at most one index entry per (baseWord, scope), the scope
\* being the global one or one user, also while addToPersonalCorpus calls
\* of the same user run at the same time.
C5_UniqueEntries ==
  \A i, j \in DOMAIN corpusIndex :
    (corpusIndex[i].baseWord = corpusIndex[j].baseWord
       /\ corpusIndex[i].userId = corpusIndex[j].userId) => i = j

\* two calls of one user met on a new base word: the second creation failed
C5_Witness ==
  /\ last.op = "add"
  /\ last.result = "Failed to update personal corpus"
  /\ \E i \in DOMAIN corpusIndex : corpusIndex[i].userId = last.caller
  /\ \E i \in DOMAIN corpusIndex : corpusIndex[i].userId = GlobalScope

\* the ids of the caller's personal entries that the overlap mode ranks for
\* these words, with their counts
rankedPersonal(u, words) ==
  LET bws == {getBaseWord(w) : w \in Range(words)} \ {<<>>}
      sorted == rankOverlap(overlapCounts(corpusIndex, bws, u))
  IN SelectSeq(sorted, LAMBDA e :
       \E i \in DOMAIN corpusIndex :
         /\ corpusIndex[i].userId = u
         /\ e.id \in Range(corpusIndex[i].sentenceIds))

\* C11: in overlap mode a ranked id that came from a personal entry is
\* resolved against the personal sentences: where that sentence exists, the
\* result holds it with its count, whatever characters the id begins with.
C11_PersonalIdsResolved ==
  (/\ last.op = "suggest"
   /\ last.arg.mode = "overlap"
   /\ "suggestions" \in DOMAIN last.result) =>
    \A k \in DOMAIN rankedPersonal(last.caller, last.arg.words) :
      LET e == rankedPersonal(last.caller, last.arg.words)[k]
      IN e.id \in DOMAIN personalCorpus =>
           \E j \in DOMAIN last.result.suggestions :
             /\ last.result.suggestions[j].sentence = personalCorpus[e.id].sentence
             /\ last.result.suggestions[j].overlap = e.overlap

\* C12: getBaseWord is idempotent: applied to its own result it returns
\* that result.
C12_Idempotent ==
  last.op = "getBaseWord" => getBaseWord(last.result) = last.result

\* a string with punctuation, an upper-case letter and a doubled letter
C12_Witness ==
  /\ last.op = "getBaseWord"
  /\ last.arg = <<"A", "-", "a">>
  /\ last.result = <<"a">>

\* the operations a signed-in user calls
UserOps == {"analyze", "suggest", "add", "deleteSentence", "deleteEntry"}

\* the value an operation returns for the Unauthorized error
isUnauthorized(op, res) ==
  IF op \in QueryOps
  THEN "error" \in DOMAIN res /\ res.error = "Unauthorized"
  ELSE res = "Unauthorized"

\* C13: analyzeSentence, getSuggestions, addToPersonalCorpus,
\* deletePersonalCorpusSentence and deletePersonalCorpusEntry called without
\* an authenticated user return Unauthorized, whatever the stores hold, and
\* leave the index and the sentence stores as they were.
C13_UnauthorizedFirst ==
  [][(last'.caller = NoUser /\ last'.op \in UserOps) =>
       /\ isUnauthorized(last'.op, last'.result)
       /\ UNCHANGED <<globalSentence, personalCorpus, corpusIndex, issued>>]_vars

\* a call without a session that names an entry that exists
C13_Witness ==
  /\ last.caller = NoUser
  /\ last.op = "deleteEntry"
  /\ \E i \in DOMAIN corpusIndex : corpusIndex[i].baseWord = last.arg
  /\ isUnauthorized(last.op, last.result)

\* C14: analyzeSentence called by an authenticated user with an empty or
\* whitespace-only sentence returns an empty analysis list and no error.
C14_EmptySentence ==
  (/\ last.op \in {"analyze", "analyzeLegacy"}
   /\ last.caller \in Users
   /\ trimIsEmpty(last.arg)) =>
    /\ "wordAnalyses" \in DOMAIN last.result
    /\ last.result.wordAnalyses = <<>>

\* C15: when the store read of one token fails during analyzeSentence, the
\* call still returns the list of analyses, in which the failed token is
\* unknown and every other token has the status it has without the failure.
C15_ReadFailureIsolated ==
  (/\ last.op = "analyzeReadFails"
   /\ last.arg.failed \in DOMAIN splitWords(last.arg.sentence)
   /\ stripPunct(splitWords(last.arg.sentence)[last.arg.failed]) # <<>>) =>
    LET expected == analyzeSentence(globalSentence, personalCorpus, corpusIndex,
                                    last.caller, last.arg.sentence).wordAnalyses
    IN /\ "wordAnalyses" \in DOMAIN last.result
       /\ Len(last.result.wordAnalyses) = Len(expected)
       /\ \A j \in DOMAIN expected :
            last.result.wordAnalyses[j].status =
              IF expected[j].position = last.arg.failed - 1
              THEN "unknown" ELSE expected[j].status

\* the operations that analyse a sentence
AnalyzeOps == {"analyze", "analyzeLegacy", "analyzeByVariants"}

\* the 1-based positions of the tokens whose stripped form is not empty
keptPositions(words) ==
  ascending({k \in DOMAIN words : stripPunct(words[k]) # <<>>})

\* C16: analyzeSentence returns one record per whitespace-delimited token
\* whose punctuation-stripped form is not empty, in token order, with the
\* 0-based index of the token among all tokens as position; a token of
\* punctuation only gives no record.
C16_OneRecordPerToken ==
  (last.op \in AnalyzeOps /\ "wordAnalyses" \in DOMAIN last.result) =>
    LET words == splitWords(last.arg)
        kept == keptPositions(words)
        res == last.result.wordAnalyses
    IN /\ Len(res) = Len(kept)
       /\ \A j \in DOMAIN kept :
            /\ j \in DOMAIN res
            /\ res[j].position = kept[j] - 1
            /\ stripPunct(res[j].word) = stripPunct(words[kept[j]])

\* C17: once no addToPersonalCorpus call is in progress, every personal
\* sentence is listed by the entry of each of its base words: a call that
\* failed between the creation of the row and the last upsert has left no
\* sentence without its references.
C17_NoOrphanSentence ==
  (\A p \in Procs : pending[p].at = "idle") =>
    \A id \in DOMAIN personalCorpus :
      \A bw \in Range(personalCorpus[id].baseWords) \ {<<>>} :
        \E i \in DOMAIN corpusIndex :
          /\ corpusIndex[i].baseWord = bw
          /\ corpusIndex[i].userId = personalCorpus[id].userId
          /\ id \in Range(corpusIndex[i].sentenceIds)

\* C18: once the addToPersonalCorpus and deletePersonalCorpusSentence calls
\* of a user have completed, the entry of a base word lists every surviving
\* sentence of the user that contains the base word.
C18_NoLostReference ==
  (\A p \in Procs : pending[p].at = "idle") =>
    \A i \in DOMAIN corpusIndex :
      \A id \in DOMAIN personalCorpus :
        (/\ personalCorpus[id].userId = corpusIndex[i].userId
         /\ corpusIndex[i].baseWord \in Range(personalCorpus[id].baseWords))
          => id \in Range(corpusIndex[i].sentenceIds)

\* C19: a deletePersonalCorpusEntry(baseWord) that succeeds removes the
\* caller's entry for baseWord and every personal sentence the entry
\* listed; when the caller has no entry for baseWord the call returns an
\* error and changes nothing.
C19_EntryCascade ==
  [][(last'.op = "deleteEntry" /\ last'.caller \in Users) =>
       LET i == FindFirst(corpusIndex, last'.arg, last'.caller)
       IN IF i = 0
          THEN /\ last'.result # "success"
               /\ UNCHANGED <<globalSentence, personalCorpus, corpusIndex>>
          ELSE /\ last'.result = "success"
               /\ FindFirst(corpusIndex', last'.arg, last'.caller) = 0
               /\ \A id \in Range(corpusIndex[i].sentenceIds) :
                    id \notin DOMAIN personalCorpus'
               /\ UNCHANGED globalSentence]_vars

\* an entry was deleted with its sentences while other entries remain
C19_Witness ==
  /\ last.op = "deleteEntry"
  /\ last.result = "success"
  /\ issued = 2
  /\ personalCorpus = << >>
  /\ FindFirst(corpusIndex, last.arg, last.caller) = 0
  /\ \E i \in DOMAIN corpusIndex : corpusIndex[i].userId = last.caller

\* how many distinct base words of the word list occur in the sentence
distinctMatches(words, sentence) ==
  Cardinality(({getBaseWord(w) : w \in Range(words)} \ {<<>>})
                \cap {getBaseWord(t) : t \in Range(splitWords(sentence))})

\* C20: the overlap count getSuggestions reports for a sentence is the
\* number of distinct base words of the input that occur in the sentence,
\* so repeating a word or a base word in the input raises no count and a
\* sentence matching one distinct base word is not returned.
C20_DistinctBaseWords ==
  (/\ last.op \in {"suggest", "suggestLegacy"}
   /\ last.arg.mode = "overlap"
   /\ "suggestions" \in DOMAIN last.result) =>
    \A j \in DOMAIN last.result.suggestions :
      last.result.suggestions[j].overlap =
        distinctMatches(last.arg.words, last.result.suggestions[j].sentence)

\* the characters of w that begin a run of equal characters
firstOfRuns(w) ==
  LET keep == SelectSeq([j \in DOMAIN w |-> j],
                        LAMBDA j : j = 1 \/ w[j] # w[j - 1])
  IN [k \in DOMAIN keep |-> w[keep[k]]]

\* C21: getBaseWord(t) is t without the punctuation characters, lower-cased,
\* with every maximal run of equal characters replaced by one character, so
\* the result holds no two equal adjacent characters.
C21_NormalForm ==
  last.op = "getBaseWord" =>
    /\ last.result = firstOfRuns(toLowerCase(stripPunct(last.arg)))
    /\ \A j \in 1..(Len(last.result) - 1) : last.result[j] # last.result[j + 1]

\* the variants an index holds for (baseWord, user), none without the entry
variantsOf(idx, bw, uid) ==
  UNION {Range(idx[i].variants) : i \in RowsFor(idx, bw, uid)}

\* every entry that is still there holds the variants it held before
variantsKept(idx, idxAfter) ==
  \A i \in DOMAIN idx :
    RowsFor(idxAfter, idx[i].baseWord, idx[i].userId) # {} =>
      Range(idx[i].variants)
        \subseteq variantsOf(idxAfter, idx[i].baseWord, idx[i].userId)

\* every token of the ingested sentences is a variant of its base word
tokensRecorded(idxAfter, uid, sentences) ==
  \A k \in NonBlank(sentences) :
    \A w \in Range(splitWords(sentences[k])) :
      getBaseWord(w) # <<>> => w \in variantsOf(idxAfter, getBaseWord(w), uid)

\* C22: after addToPersonalCorpus ingests a sentence the entry of each of
\* its base words for the user holds every token of the sentence with that
\* base word as a variant, whether the entry was created or updated; no
\* write removes a variant from an entry that stays.
C22_VariantsComplete ==
  [][/\ variantsKept(corpusIndex, corpusIndex')
     /\ variantsKept(personalCorpusIndex, personalCorpusIndex')
     /\ (last'.op = "add" /\ last'.result = "success") =>
          tokensRecorded(corpusIndex', last'.caller, last'.arg)
     /\ (last'.op = "addLegacy" /\ last'.result = "success") =>
          tokensRecorded(personalCorpusIndex', last'.caller, last'.arg)]_vars

\* C23: for any list of sentences the batch seeding and addToPersonalCorpus
\* run on the sentences in order give every base word the same sentence
\* references and the same variants, whatever the sentence ids are called.
C23_BatchEqualsIncremental ==
  last.op = "buildIndexes" =>
    /\ last.result.main = last.result.addToPersonalCorpus
    /\ last.result.seedGlobalCorpus = last.result.addToPersonalCorpus

C25_TextPairedWithOwnCount ==
  (/\ last.op = "suggestLegacy"
   /\ last.arg.mode = "overlap"
   /\ "suggestions" \in DOMAIN last.result) =>
    \A j \in DOMAIN last.result.suggestions :
      LET item == last.result.suggestions[j]
      IN getSentencesByIds(dataFiles, <<item.id>>) = <<item.sentence>>

\* C26: updateProject called by a user who does not own the project returns
\* an error and leaves the project and its sentences as they were.
C26_ForeignProjectUntouched ==
  [][(/\ last'.op \in {"updateProject", "updateDetails"}
      /\ last'.caller \in Users
      /\ project[last'.arg.projectId].userId # last'.caller) =>
       /\ last'.result # "success"
       /\ UNCHANGED <<project, projectSentence>>]_vars

\* what analyzeSentence returned for the line a stored row was written from
analysisOf(row, caller, failedLine) ==
  IF row.position = failedLine
  THEN analyzeSentenceReadFails(globalSentence, personalCorpus, corpusIndex,
                                caller, row.text, 1)
  ELSE analyzeSentence(globalSentence, personalCorpus, corpusIndex, caller, row.text)

\* C27: syncAndAnalyzeSentences stores a project sentence as complete only
\* if analyzeSentence succeeded for its text and every word analysis it
\* returned is correct; a sentence whose analysis returned an error is not
\* stored as complete.
C27_CompleteOnlyIfAnalysed ==
  [][last'.op = "updateProject" =>
       \A j \in DOMAIN projectSentence' :
         LET row == projectSentence'[j]
             result == analysisOf(row, last'.caller, last'.arg.failedLine)
         IN (row \notin Range(projectSentence) /\ row.status = "complete") =>
              /\ "wordAnalyses" \in DOMAIN result
              /\ \A k \in DOMAIN result.wordAnalyses :
                   result.wordAnalyses[k].status = "correct"]_vars

\* the rows of a project
rowsOf(rows, pid) == {j \in DOMAIN rows : rows[j].projectId = pid}

completeRows(pid) ==
  {j \in rowsOf(projectSentence, pid) :
     projectSentence[j].status = "complete" /\ ~trimIsEmpty(projectSentence[j].text)}

\* C29: enforceProjectSentences marks a project enforced and archived only
\* if the project is the caller's, its stored completionRate is 100, it has
\* a complete sentence and addToPersonalCorpus succeeded for the complete
\* sentences; on every error return isEnforced and status stay as they were.
C29_EnforcedOnlyWhenComplete ==
  [][/\ \A p \in DOMAIN project :
          (p \in DOMAIN project' /\ (project'[p].isEnforced # project[p].isEnforced
                                     \/ project'[p].status # project[p].status)) =>
            (last'.op = "enforce" /\ last'.arg = p /\ last'.result = "success")
     /\ (last'.op = "enforce" /\ last'.result = "success") =>
          /\ last'.arg \in DOMAIN project
          /\ project[last'.arg].userId = last'.caller
          /\ project[last'.arg].completionRate = 100
          /\ \E j \in rowsOf(projectSentence, last'.arg) :
               projectSentence[j].status = "complete"
          /\ project'[last'.arg].isEnforced
          /\ project'[last'.arg].status = "archived"
          /\ Cardinality(DOMAIN personalCorpus' \ DOMAIN personalCorpus)
               = Cardinality(completeRows(last'.arg))
          /\ \A x \in DOMAIN personalCorpus' \ DOMAIN personalCorpus :
               /\ personalCorpus'[x].userId = last'.caller
               /\ \E j \in completeRows(last'.arg) :
                    projectSentence[j].text = personalCorpus'[x].sentence]_vars

\* a project was enforced and its complete sentence is in the personal corpus
C29_Witness ==
  /\ last.op = "enforce"
  /\ last.result = "success"
  /\ project[last.arg].isEnforced
  /\ project[last.arg].status = "archived"
  /\ \E x \in DOMAIN personalCorpus : personalCorpus[x].sentence = <<"b", " ", "b">>

\* C30: enforceProjectSentences on a project that is already enforced adds
\* no sentence to the personal corpus and no sentence reference or variant
\* to the index.
C30_EnforceIdempotent ==
  [][(/\ last'.op = "enforce"
      /\ last'.arg \in DOMAIN project
      /\ project[last'.arg].isEnforced) =>
       UNCHANGED <<personalCorpus, corpusIndex>>]_vars

====
